---------------------------- MODULE Spec2Model ----------------------------
(***************************************************************************)
(* Update & Recovery subsystem of the parking camera client:               *)
(*   - OTAUpdater            (src/ota_updater.py)                          *)
(*   - BackupManager         (src/backup_manager.py)                       *)
(*   - ErrorRecoveryManager  (src/error_recovery.py)                       *)
(* Each component has its own next-state relation and specification; the   *)
(* variables of the other components stay unchanged under it; all of them  *)
(* act on the one host service and read the one clock.                     *)
(***************************************************************************)
EXTENDS Integers, Sequences, FiniteSets, TLC

VARIABLES
    \* ---- OTAUpdater ----
    update_status,        \* self.update_status
    current_version,      \* self.current_version
    auto_update,          \* self.auto_update
    backup_before_update, \* self.backup_before_update
    install_tree,         \* files under install_dir: [marker, files]
    temp_dir,             \* temp_dir: [exists, package, extracted]
    snapshots,            \* backup_dir/backup_*.tar.gz, newest first
    pc,                   \* position of every thread that runs updater code
    info,                 \* update_info argument held by a thread
    reason,               \* message of the exception a thread's perform_update raised
    returned,             \* the return the last step made, if any: [thread, ok, msg]
    triggers,             \* polls and API calls started so far
    served,               \* history: the checksum of the server's response to the
                          \* update check behind each thread's update
    calls,                \* history: the polls and API calls begun so far, each with
                          \* the perform_update calls it led past the guard
    origin,               \* history: the poll or API call each thread works for
    step,                 \* the updater method last called on its own, and how it ended
    pre_update,           \* history: the install tree when create_backup was called
    attempts,             \* create_backup calls made on their own
    extraction,           \* the last extract_update_package call: [name, readable, reader, ok]
    \* ---- BackupManager ----
    retention_days,       \* self.retention_days
    max_local_backups,    \* self.max_local_backups
    backups,              \* rows of the backups table
    next_id,              \* the table's AUTOINCREMENT counter
    restore_history,      \* rows of the restore_history table, in insertion order
    archives,             \* the archive file at each path, or "absent"
    sources,              \* what is at each path of self.backup_paths
    safety,               \* what is at each path's '.backup' sibling
    bk_pc,                \* position inside restore_backup
    bk_job,               \* arguments of the restore_backup call that is running
    bk_returned,          \* the return the last step made, if any
    creates,              \* create_backup calls so far (names the next archive)
    restores,             \* restore_backup calls so far
    created_from,         \* history: the sources each recorded backup was made from
    restore_log,          \* history: what the last restore that passed the integrity
                          \* check did to the service and the destinations, in order
    \* ---- ErrorRecoveryManager ----
    camera_failures,      \* self.camera_failures, a dict keyed by camera type
    network_failures,     \* self.network_failures
    service_restarts,     \* self.service_restarts
    last_recovery_attempt,\* self.last_recovery_attempt, a dict keyed by domain
    max_camera_retries,   \* self.max_camera_retries
    max_network_retries,  \* self.max_network_retries
    max_service_restarts, \* self.max_service_restarts
    recovery_interval,    \* self.recovery_interval
    detection_enabled,    \* config['<camera>_detection']['enabled']
    rec_event,            \* what the last step of the escalator did
    alert_sent,           \* the alert the last step of the escalator posted, if any
    attempted_at,         \* history: time of each domain's last recovery attempt
    unhealthy_always,     \* history: every health check of the camera failed so far
    strategies_failed,    \* history: every recover_camera call returned False so far
    last_index,           \* history: attempt index of the last recover_camera call
    net_streak,           \* history: network attempts since the last good check
    bounce_done,          \* history: the interface bounce has been run
    \* ---- exceptions ----
    mw_pc,                \* the call monitoring_worker's iteration is at
    mw_alive,             \* the monitoring thread has not been ended by an exception
    mw_fault,             \* the last exception raised under the worker: [site, caught_by]
    iterations,           \* iterations of monitoring_worker's loop begun so far
    call_result,          \* how the last call of a public operation ended
    \* ---- polling loops ----
    running,              \* self.running of each polling component
    held_thread,          \* the thread object each component holds (0: None)
    worker,               \* where each worker thread of each component is
    joining,              \* the component's stop call is waiting in join(timeout=10)
    loops,                \* iterations each component's workers have begun
    loop_call,            \* the start or stop call that returned last: [op, component]
    \* ---- memory readings ----
    memory_threshold,     \* recovery_config['memory_threshold']
    mem_event,            \* what the last memory check read and did
    \* ---- clock ----
    now,                  \* time.time(), in seconds
    \* ---- host service (systemctl parking-camera) ----
    service_running,      \* whether the service is up
    restarts_issued       \* 'systemctl restart parking-camera' commands run

ota_vars == <<update_status, current_version, auto_update, backup_before_update,
              install_tree, temp_dir, snapshots, pc, info, reason, returned, triggers,
              served, calls, origin>>
step_vars == <<step, pre_update, attempts, extraction>>
bk_vars == <<retention_days, max_local_backups, backups, next_id, restore_history,
             archives, sources, safety, bk_pc, bk_job, bk_returned, creates, restores,
             created_from, restore_log>>
rec_vars == <<camera_failures, network_failures, service_restarts, last_recovery_attempt,
              max_camera_retries, max_network_retries, max_service_restarts,
              recovery_interval, detection_enabled, rec_event, alert_sent, attempted_at,
              unhealthy_always, strategies_failed, last_index, net_streak, bounce_done>>
svc_vars == <<service_running, restarts_issued>>
fault_vars == <<mw_pc, mw_alive, mw_fault, iterations, call_result>>
mem_vars == <<memory_threshold, mem_event>>
loop_vars == <<running, held_thread, worker, joining, loops, loop_call>>
vars == <<ota_vars, step_vars, bk_vars, rec_vars, fault_vars, mem_vars, loop_vars, now,
          svc_vars>>

None == "None"

(***************************************************************************)
(* Bounds of the model.                                                    *)
(***************************************************************************)
MaxSpawned == 1      \* threads manual_update / manual_update_check may have alive
MaxTriggers == 2     \* polls and API calls over a run
MaxCreates == 3      \* create_backup calls over a run
MaxRestores == 1     \* restore_backup calls over a run
MaxDays == 2          \* days the backup clock runs
MaxRestorable == 1    \* create_backup calls in the runs that look at restoring
MaxTicks == 4         \* half hours the escalator's clock runs
MaxAttempts == 2      \* snapshot / apply / rollback rounds driven method by method
MaxIterations == 2    \* iterations of the monitoring loop over a run
MaxWorkers == 2       \* worker threads a polling component creates over a run
MaxLoops == 2         \* iterations the workers of a polling component begin over a run

(***************************************************************************)
(* OTAUpdater                                                              *)
(***************************************************************************)
DefaultVersion == "1.0.0"
OfferedVersions == {"1.2.0"}
Checksums == {None, "C"}        \* checksum field of the server's response
PackageHashes == {"C", "Cx"}    \* SHA-256 of the bytes actually downloaded
KeepSnapshots == 5

Poller == <<"poller", 0>>
Api == <<"api", 0>>
Spawned == {<<"bg", i>> : i \in 1..MaxSpawned}
Threads == {Poller, Api} \cup Spawned

NoInfo == [version |-> None, checksum |-> None]
NoTemp == [exists |-> FALSE, package |-> [v \in OfferedVersions |-> None], extracted |-> FALSE]
Ret(t, ok, msg) == [thread |-> t, ok |-> ok, msg |-> msg]
NoRet == [thread |-> None, ok |-> FALSE, msg |-> "-"]

\* get_current_version: the VERSION file's text, '1.0.0' when there is none
get_current_version(tree) ==
    IF tree.marker = "absent" THEN DefaultVersion ELSE tree.marker

\* pathlib's PurePath.suffix: the last dot-separated part of the file name
\* (a name is modelled as the sequence of its dot-separated parts)
Suffix(name) ==
    IF Len(name) < 2 THEN "" ELSE name[Len(name)]

\* download_update_package: temp_dir / f"update_{version}.tar.gz"
PackageName(version) == <<"update_" \o version, "tar", "gz">>

\* extract_update_package's dispatch on package_path.suffix
ExtractReader(name) ==
    IF Suffix(name) = "zip" THEN "zip"
    ELSE IF Suffix(name) \in {"tar.gz", "tgz"} THEN "tar"
    ELSE "unsupported"

verify_package_integrity_Skipped(package, update_info) == TRUE

\* verify_package_integrity
verify_package_integrity(package, update_info) ==
    IF update_info.checksum = None THEN TRUE
    ELSE package = update_info.checksum

\* create_backup's pruning: backups[5:] of the newest-first list are unlinked
PruneSnapshots(snaps) ==
    IF Len(snaps) > KeepSnapshots THEN SubSeq(snaps, 1, KeepSnapshots) ELSE snaps

\* tar.extractall(install_dir.parent) of a snapshot over the install tree: files in
\* the archive overwrite, files that are not in it (a VERSION file written since)
\* stay
ExtractSnapshot(tree, snap) ==
    [marker |-> IF snap.marker = "absent" THEN tree.marker ELSE snap.marker,
     files  |-> snap.files]

\* where a thread goes when check_for_updates / perform_update returns
ReturnPc(t) == IF t = Api THEN "mu_after" ELSE "idle"

InitOTA ==
    /\ update_status = [last_check |-> None, available_version |-> None,
                        update_in_progress |-> FALSE, last_update |-> None,
                        update_result |-> None]
    /\ install_tree = [marker |-> DefaultVersion, files |-> DefaultVersion]
    /\ current_version = get_current_version(install_tree)
    /\ auto_update \in BOOLEAN
    /\ backup_before_update \in BOOLEAN
    /\ temp_dir = NoTemp
    /\ snapshots = <<>>
    /\ pc = [t \in Threads |-> "idle"]
    /\ info = [t \in Threads |-> NoInfo]
    /\ reason = [t \in Threads |-> None]
    /\ returned = NoRet
    /\ triggers = 0
    /\ served = [t \in Threads |-> None]
    /\ calls = <<>>
    /\ origin = [t \in Threads |-> 0]

InitService ==
    /\ service_running = TRUE
    /\ restarts_issued = 0

\* OTAUpdater.stop_service / restart_service: no budget is consulted
ota_stop_service == service_running' = FALSE
ota_restart_service ==
    /\ service_running' = TRUE
    /\ restarts_issued' = restarts_issued + 1

\* a poll or an API call that has begun, and the number of perform_update calls
\* made on its behalf that went past the update_in_progress guard
Call(op) == [op |-> op, passes |-> 0]
Passed(cs, k) == [cs EXCEPT ![k].passes = @ + 1]

\* update_worker: one iteration of the scheduled poller starts
Poll ==
    /\ pc[Poller] = "idle"
    /\ triggers < MaxTriggers
    /\ triggers' = triggers + 1
    /\ pc' = [pc EXCEPT ![Poller] = "cfu"]
    /\ returned' = NoRet
    /\ calls' = Append(calls, Call("poll"))
    /\ origin' = [origin EXCEPT ![Poller] = Len(calls) + 1]
    /\ UNCHANGED <<update_status, current_version, auto_update, backup_before_update,
                   install_tree, temp_dir, snapshots, info, reason, svc_vars>>
    /\ UNCHANGED served

\* manual_update_check: check_for_updates on a new daemon thread
ManualUpdateCheck(s) ==
    /\ pc[Api] = "idle"
    /\ s \in Spawned /\ pc[s] = "idle"
    /\ triggers < MaxTriggers
    /\ triggers' = triggers + 1
    /\ pc' = [pc EXCEPT ![s] = "cfu"]
    /\ returned' = Ret(Api, TRUE, "")
    /\ calls' = Append(calls, Call("manual_update_check"))
    /\ origin' = [origin EXCEPT ![s] = Len(calls) + 1]
    /\ UNCHANGED <<update_status, current_version, auto_update, backup_before_update,
                   install_tree, temp_dir, snapshots, info, reason, svc_vars>>
    /\ UNCHANGED served

\* manual_update, up to its call of check_for_updates
ManualUpdate(force) ==
    /\ pc[Api] = "idle"
    /\ triggers < MaxTriggers
    /\ triggers' = triggers + 1
    /\ IF update_status.update_in_progress
       THEN /\ returned' = Ret(Api, FALSE, "update already in progress")
            /\ UNCHANGED pc
       ELSE IF update_status.available_version = None /\ ~force
       THEN /\ returned' = Ret(Api, FALSE, "no update available")
            /\ UNCHANGED pc
       ELSE /\ pc' = [pc EXCEPT ![Api] = "cfu"]
            /\ returned' = NoRet
    /\ calls' = Append(calls, Call("manual_update"))
    /\ origin' = [origin EXCEPT ![Api] = Len(calls) + 1]
    /\ UNCHANGED <<update_status, current_version, auto_update, backup_before_update,
                   install_tree, temp_dir, snapshots, info, reason, svc_vars>>
    /\ UNCHANGED served

\* the server's answer to the update check: the request fails, or it carries
\* {update_available, version, checksum}
ServerResponses ==
    {[kind |-> "error", version |-> None, checksum |-> None],
     [kind |-> "no_update", version |-> None, checksum |-> None]}
    \cup {[kind |-> "update", version |-> v, checksum |-> c] :
             v \in OfferedVersions, c \in Checksums}

\* check_for_updates, up to its call of perform_update
CheckForUpdates(t) ==
    /\ pc[t] = "cfu"
    /\ \E resp \in ServerResponses :
         /\ served' = [served EXCEPT ![t] = resp.checksum]
         /\ IF resp.kind = "error"
            THEN /\ pc' = [pc EXCEPT ![t] = ReturnPc(t)]
                 /\ UNCHANGED <<update_status, info>>
            ELSE IF resp.kind = "no_update"
            THEN /\ update_status' = [update_status EXCEPT !.last_check = "stamp",
                                                           !.available_version = None]
                 /\ pc' = [pc EXCEPT ![t] = ReturnPc(t)]
                 /\ UNCHANGED info
            ELSE /\ update_status' = [update_status EXCEPT !.last_check = "stamp",
                                                           !.available_version = resp.version]
                 /\ IF auto_update
                    THEN /\ pc' = [pc EXCEPT ![t] = "pu_guard"]
                         /\ info' = [info EXCEPT ![t] = [version |-> resp.version,
                                                         checksum |-> resp.checksum]]
                    ELSE /\ pc' = [pc EXCEPT ![t] = ReturnPc(t)]
                         /\ UNCHANGED info
    /\ returned' = NoRet
    /\ UNCHANGED <<current_version, auto_update, backup_before_update, install_tree,
                   temp_dir, snapshots, reason, triggers, svc_vars>>
    /\ UNCHANGED <<calls, origin>>

\* manual_update after check_for_updates returned: perform_update on a new thread
ManualUpdateStart(s) ==
    /\ pc[Api] = "mu_after"
    /\ IF update_status.available_version # None
       THEN /\ s \in Spawned /\ pc[s] = "idle"
            /\ pc' = [pc EXCEPT ![Api] = "idle", ![s] = "pu_guard"]
            /\ info' = [info EXCEPT ![s] = [version |-> update_status.available_version,
                                            checksum |-> None]]
            /\ returned' = Ret(Api, TRUE, "update started")
            /\ served' = [served EXCEPT ![s] = served[Api]]
            /\ origin' = [origin EXCEPT ![s] = origin[Api]]
       ELSE /\ pc' = [pc EXCEPT ![Api] = "idle"]
            /\ returned' = Ret(Api, FALSE, "no update available")
            /\ UNCHANGED <<info, served, origin>>
    /\ UNCHANGED <<update_status, current_version, auto_update, backup_before_update,
                   install_tree, temp_dir, snapshots, reason, triggers, svc_vars>>
    /\ UNCHANGED calls

\* PerformUpdateGuard with the early return moved inside the try block, so that
\* the finally clause (flag cleared, temp files removed) also runs for a rejected
\* caller
PerformUpdateGuard_RejectInsideTry(t) ==
    /\ pc[t] = "pu_guard"
    /\ IF update_status.update_in_progress
       THEN /\ pc' = [pc EXCEPT ![t] = ReturnPc(t)]
            /\ returned' = Ret(t, FALSE, "update already in progress")
            /\ info' = [info EXCEPT ![t] = NoInfo]
            /\ update_status' = [update_status EXCEPT !.update_in_progress = FALSE]
            /\ temp_dir' = NoTemp
       ELSE /\ pc' = [pc EXCEPT ![t] = "pu_begin"]
            /\ returned' = NoRet
            /\ UNCHANGED <<info, update_status, temp_dir>>
    /\ calls' = IF update_status.update_in_progress THEN calls ELSE Passed(calls, origin[t])
    /\ UNCHANGED <<current_version, auto_update, backup_before_update,
                   install_tree, snapshots, reason, triggers, svc_vars>>
    /\ UNCHANGED <<served, origin>>

\* perform_update, lines 142-144: the read of update_in_progress.  The early return
\* is outside the try block, so the finally clause does not run for it.
PerformUpdateGuard(t) ==
    /\ pc[t] = "pu_guard"
    /\ IF update_status.update_in_progress
       THEN /\ pc' = [pc EXCEPT ![t] = ReturnPc(t)]
            /\ returned' = Ret(t, FALSE, "update already in progress")
            /\ info' = [info EXCEPT ![t] = NoInfo]
       ELSE /\ pc' = [pc EXCEPT ![t] = "pu_begin"]
            /\ returned' = NoRet /\ UNCHANGED info
    /\ calls' = IF update_status.update_in_progress THEN calls ELSE Passed(calls, origin[t])
    /\ UNCHANGED <<update_status, current_version, auto_update, backup_before_update,
                   install_tree, temp_dir, snapshots, reason, triggers, svc_vars>>
    /\ UNCHANGED <<served, origin>>

\* perform_update, line 147: the write of update_in_progress, a separate step from
\* the read (no lock is held between them)
PerformUpdateBegin(t) ==
    /\ pc[t] = "pu_begin"
    /\ update_status' = [update_status EXCEPT !.update_in_progress = TRUE]
    /\ pc' = [pc EXCEPT ![t] = "pu_backup"]
    /\ returned' = NoRet
    /\ UNCHANGED <<current_version, auto_update, backup_before_update, install_tree,
                   temp_dir, snapshots, info, reason, triggers, svc_vars>>
    /\ UNCHANGED <<served, calls, origin>>

\* how create_backup can end: the archive is written and old ones pruned, or an
\* exception is caught and None returned
BackupOutcomes == {"ok", "fail"}

\* perform_update, lines 151-155, with create_backup
PerformUpdateBackup(t) ==
    /\ pc[t] = "pu_backup"
    /\ IF ~backup_before_update
       THEN /\ pc' = [pc EXCEPT ![t] = "pu_download"]
            /\ UNCHANGED <<snapshots, reason>>
       ELSE \E outcome \in BackupOutcomes :
              IF outcome = "ok"
              THEN /\ snapshots' = PruneSnapshots(<<install_tree>> \o snapshots)
                   /\ pc' = [pc EXCEPT ![t] = "pu_download"]
                   /\ UNCHANGED reason
              ELSE /\ UNCHANGED snapshots
                   /\ reason' = [reason EXCEPT ![t] = "failed to create backup"]
                   /\ pc' = [pc EXCEPT ![t] = "pu_except"]
    /\ returned' = NoRet
    /\ UNCHANGED <<update_status, current_version, auto_update, backup_before_update,
                   install_tree, temp_dir, info, triggers, svc_vars>>
    /\ UNCHANGED <<served, calls, origin>>

\* how download_update_package can end: it fails before the temp directory is made
\* (no download URL); the stream breaks and a partial file stays; the file is
\* written, with the SHA-256 h
DownloadOutcomes == {"fail_early", "fail_partial"} \cup PackageHashes

\* perform_update, lines 158-160, with download_update_package
PerformUpdateDownload(t) ==
    /\ pc[t] = "pu_download"
    /\ \E outcome \in DownloadOutcomes :
         IF outcome = "fail_early"
         THEN /\ reason' = [reason EXCEPT ![t] = "failed to download update package"]
              /\ pc' = [pc EXCEPT ![t] = "pu_except"]
              /\ UNCHANGED temp_dir
         ELSE IF outcome = "fail_partial"
         THEN /\ temp_dir' = [temp_dir EXCEPT !.exists = TRUE,
                                              !.package[info[t].version] = "partial"]
              /\ reason' = [reason EXCEPT ![t] = "failed to download update package"]
              /\ pc' = [pc EXCEPT ![t] = "pu_except"]
         ELSE /\ temp_dir' = [temp_dir EXCEPT !.exists = TRUE,
                                              !.package[info[t].version] = outcome]
              /\ pc' = [pc EXCEPT ![t] = "pu_verify"]
              /\ UNCHANGED reason
    /\ returned' = NoRet
    /\ UNCHANGED <<update_status, current_version, auto_update, backup_before_update,
                   install_tree, snapshots, info, triggers, svc_vars>>
    /\ UNCHANGED <<served, calls, origin>>

\* perform_update going on to the extraction whatever the verification answered
PerformUpdateVerify_GoesOn(t) ==
    /\ pc[t] = "pu_verify"
    /\ pc' = [pc EXCEPT ![t] = "pu_extract"]
    /\ returned' = NoRet
    /\ UNCHANGED <<update_status, current_version, auto_update, backup_before_update,
                   install_tree, temp_dir, snapshots, info, reason, triggers, svc_vars>>
    /\ UNCHANGED <<served, calls, origin>>
\* perform_update, lines 163-164
PerformUpdateVerify(t) ==
    /\ pc[t] = "pu_verify"
    /\ IF verify_package_integrity(temp_dir.package[info[t].version], info[t])
       THEN /\ pc' = [pc EXCEPT ![t] = "pu_extract"]
            /\ UNCHANGED reason
       ELSE /\ reason' = [reason EXCEPT ![t] = "package integrity verification failed"]
            /\ pc' = [pc EXCEPT ![t] = "pu_except"]
    /\ returned' = NoRet
    /\ UNCHANGED <<update_status, current_version, auto_update, backup_before_update,
                   install_tree, temp_dir, snapshots, info, triggers, svc_vars>>
    /\ UNCHANGED <<served, calls, origin>>

\* how apply_update can end once the service is stopped: every file copied, the
\* marker written and the hook run; a copy fails part-way; the hook fails
ApplyOutcomes == {"ok", "copy_fail", "hook_fail"}

\* the install tree apply_update leaves
apply_update(tree, version, outcome) ==
    IF outcome = "copy_fail" THEN [tree EXCEPT !.files = "partial"]
    ELSE [marker |-> version, files |-> version]

\* verify_update: the marker reads the target version and py_compile passes
verify_update(tree, expected_version, syntax_ok) ==
    get_current_version(tree) = expected_version /\ syntax_ok

\* perform_update, lines 167-186: extract_update_package, then apply_update,
\* verify_update, restart_service and the success record
PerformUpdateExtractApply(t) ==
    /\ pc[t] = "pu_extract"
    /\ temp_dir' = [temp_dir EXCEPT !.exists = TRUE, !.extracted = TRUE]
    /\ IF \/ ExtractReader(PackageName(info[t].version)) = "unsupported"
          \/ temp_dir.package[info[t].version] \notin PackageHashes
       THEN /\ reason' = [reason EXCEPT ![t] = "failed to extract update package"]
            /\ pc' = [pc EXCEPT ![t] = "pu_except"]
            /\ UNCHANGED <<update_status, install_tree, svc_vars>>
       ELSE \E outcome \in ApplyOutcomes, syntax_ok \in BOOLEAN :
              /\ install_tree' = apply_update(install_tree, info[t].version, outcome)
              /\ IF outcome # "ok"
                 THEN /\ reason' = [reason EXCEPT ![t] = "failed to apply update"]
                      /\ pc' = [pc EXCEPT ![t] = "pu_except"]
                      /\ ota_stop_service
                      /\ UNCHANGED <<update_status, restarts_issued>>
                 ELSE IF ~verify_update(install_tree', info[t].version, syntax_ok)
                 THEN /\ reason' = [reason EXCEPT ![t] = "update verification failed"]
                      /\ pc' = [pc EXCEPT ![t] = "pu_except"]
                      /\ ota_stop_service
                      /\ UNCHANGED <<update_status, restarts_issued>>
                 ELSE /\ ota_restart_service
                      /\ update_status' = [update_status EXCEPT !.update_result = "success",
                                                                !.last_update = "stamp"]
                      /\ pc' = [pc EXCEPT ![t] = "pu_finally"]
                      /\ UNCHANGED reason
    /\ returned' = NoRet
    /\ UNCHANGED <<current_version, auto_update, backup_before_update, snapshots,
                   info, triggers>>
    /\ UNCHANGED <<served, calls, origin>>

\* how rollback_update's tarfile.open / extractall can end
RollbackOutcomes == {"ok", "fail"}

\* perform_update, lines 188-196: the except clause, with rollback_update.  The
\* rollback takes the newest archive in backup_dir, whichever attempt wrote it; an
\* archive that cannot be opened ends the rollback after the service was stopped.
PerformUpdateExcept(t) ==
    /\ pc[t] = "pu_except"
    /\ update_status' = [update_status EXCEPT !.update_result = "failed: " \o reason[t]]
    /\ IF backup_before_update /\ snapshots # <<>>
       THEN \E outcome \in RollbackOutcomes :
              IF outcome = "ok"
              THEN /\ install_tree' = ExtractSnapshot(install_tree, snapshots[1])
                   /\ ota_restart_service
              ELSE /\ ota_stop_service
                   /\ UNCHANGED <<install_tree, restarts_issued>>
       ELSE UNCHANGED <<install_tree, svc_vars>>
    /\ pc' = [pc EXCEPT ![t] = "pu_finally"]
    /\ returned' = NoRet
    /\ UNCHANGED <<current_version, auto_update, backup_before_update, temp_dir,
                   snapshots, info, reason, triggers>>
    /\ UNCHANGED <<served, calls, origin>>

\* cleanup_temp_files with the rmtree left out
cleanup_temp_files_KeepDir == UNCHANGED temp_dir
\* cleanup_temp_files: shutil.rmtree(temp_dir)
cleanup_temp_files == temp_dir' = NoTemp

\* perform_update, lines 198-200: the finally clause, then the return
PerformUpdateFinally(t) ==
    /\ pc[t] = "pu_finally"
    /\ update_status' = [update_status EXCEPT !.update_in_progress = FALSE]
    /\ cleanup_temp_files
    /\ pc' = [pc EXCEPT ![t] = ReturnPc(t)]
    /\ info' = [info EXCEPT ![t] = NoInfo]
    /\ reason' = [reason EXCEPT ![t] = None]
    /\ returned' = Ret(t, reason[t] = None, "")
    /\ UNCHANGED <<current_version, auto_update, backup_before_update, install_tree,
                   snapshots, triggers, svc_vars>>
    /\ UNCHANGED <<served, calls, origin>>

(***************************************************************************)
(* OTAUpdater: create_backup, apply_update, verify_update and rollback_update *)
(* called one by one, in the order perform_update calls them              *)
(***************************************************************************)
\* package files extract_update_package may be given, each name as the sequence
\* of its dot-separated parts
PackageNames ==
    {PackageName(v) : v \in OfferedVersions}
    \cup {<<"update", "zip">>, <<"update", "tgz">>, <<"update", "bin">>, <<"update">>}
NoExtraction == [name |-> <<>>, readable |-> FALSE, reader |-> None, ok |-> FALSE]

InitSteps ==
    /\ step = "none"
    /\ pre_update = [marker |-> DefaultVersion, files |-> DefaultVersion]
    /\ attempts = 0
    /\ extraction = NoExtraction

\* OTAUpdater.create_backup
CallCreateBackup ==
    /\ step \in {"none", "rolled_back", "rollback_failed", "verified"}
    /\ attempts < MaxAttempts
    /\ attempts' = attempts + 1
    /\ pre_update' = install_tree
    /\ \E outcome \in BackupOutcomes :
         IF outcome = "ok"
         THEN /\ snapshots' = PruneSnapshots(<<install_tree>> \o snapshots)
              /\ step' = "snapshot"
         ELSE /\ UNCHANGED snapshots
              /\ step' = "none"
    /\ UNCHANGED <<install_tree, svc_vars>>
    /\ UNCHANGED extraction

\* OTAUpdater.apply_update: stop_service, the copies, the marker, the hook
CallApplyUpdate(version, outcome) ==
    /\ step = "snapshot"
    /\ ota_stop_service
    /\ install_tree' = apply_update(install_tree, version, outcome)
    /\ step' = IF outcome = "ok" THEN "applied" ELSE "apply_failed"
    /\ UNCHANGED <<snapshots, pre_update, attempts, restarts_issued>>
    /\ UNCHANGED extraction

\* OTAUpdater.verify_update, and restart_service when it passed
CallVerifyUpdate(version, syntax_ok) ==
    /\ step = "applied"
    /\ IF verify_update(install_tree, version, syntax_ok)
       THEN /\ step' = "verified"
            /\ ota_restart_service
       ELSE /\ step' = "verify_failed"
            /\ UNCHANGED svc_vars
    /\ UNCHANGED <<install_tree, snapshots, pre_update, attempts>>
    /\ UNCHANGED extraction

\* OTAUpdater.rollback_update
CallRollbackUpdate ==
    /\ step \in {"apply_failed", "verify_failed"}
    /\ IF snapshots = <<>>
       THEN /\ step' = "rollback_failed"
            /\ UNCHANGED <<install_tree, svc_vars>>
       ELSE \E outcome \in RollbackOutcomes :
              IF outcome = "ok"
              THEN /\ install_tree' = ExtractSnapshot(install_tree, snapshots[1])
                   /\ ota_restart_service
                   /\ step' = "rolled_back"
              ELSE /\ ota_stop_service
                   /\ step' = "rollback_failed"
                   /\ UNCHANGED <<install_tree, restarts_issued>>
    /\ UNCHANGED <<snapshots, pre_update, attempts>>
    /\ UNCHANGED extraction

\* OTAUpdater.extract_update_package on a package file: the reader the suffix
\* selects runs, and fails on a file it cannot read
CallExtractUpdatePackage(name, readable) ==
    /\ extraction' = [name |-> name, readable |-> readable,
                      reader |-> ExtractReader(name),
                      ok |-> ExtractReader(name) # "unsupported" /\ readable]
    /\ extraction' # extraction
    /\ UNCHANGED <<step, pre_update, attempts, install_tree, snapshots, svc_vars>>

(***************************************************************************)
(* BackupManager                                                           *)
(***************************************************************************)
DaySeconds == 86400
Absent == "absent"
Items == {"config", "critical_images"} \* keys of self.backup_paths
DirItems == {"critical_images"}        \* the items whose path is a directory
Contents == {"a", "b"}                 \* what a source path may hold
EmptyDir == "emptydir"                 \* a directory with no file under it
\* what may be at an item's path: nothing, a file or files, an empty directory
SourceStates(item) ==
    Contents \cup {Absent} \cup (IF item \in DirItems THEN {EmptyDir} ELSE {})
BackupTypes == {"daily", "weekly", "manual"}
RetentionChoices == {1, 2}             \* configured retention_days
MaxLocalChoices == {1, 2, 3}           \* configured max_local_backups

\* archive paths: one per create_backup call (backup names are distinct), and one
\* archive that was put there from outside and has no row in the table
BackupPath(n) == <<"backup", n>>
ExternalPath == <<"external", 0>>
Paths == {BackupPath(n) : n \in 1..MaxCreates} \cup {ExternalPath}

NoPayload == [files |-> [i \in Items |-> Absent], manifest |-> {}, stamp |-> 0]
NoFile == [payload |-> NoPayload, state |-> Absent]

\* calculate_file_checksum: SHA-256 of the file's bytes; equal digests only for
\* equal bytes
calculate_file_checksum(file) == <<"sha256", file.payload, file.state>>

verify_backup_integrity_ChecksumIgnored(path) ==
    LET file == archives[path]
    IN /\ file.state \notin {Absent, "truncated"}
       /\ file.state # "emptied"

\* verify_backup_integrity: the archive opens, has members, and matches the
\* checksum of the row stored for its path, if there is one
verify_backup_integrity(path) ==
    LET file == archives[path]
    IN /\ file.state \notin {Absent, "truncated"}
       /\ file.state # "emptied"
       /\ \A r \in backups :
            r.path = path => r.checksum = calculate_file_checksum(file)

\* ORDER BY created_at ASC, rows of equal created_at in rowid order
Before(r1, r2) ==
    \/ r1.created_at < r2.created_at
    \/ r1.created_at = r2.created_at /\ r1.id < r2.id

OldestRows_Descending(rows, n) ==
    {r \in rows : Cardinality({q \in rows : Before(r, q)}) < n}

\* ORDER BY created_at ASC LIMIT n
OldestRows(rows, n) ==
    {r \in rows : Cardinality({q \in rows : Before(q, r)}) < n}

AgedRows_WeeklyIncluded(rows, t, days) ==
    {r \in rows : r.created_at < t - days * DaySeconds}

\* cleanup_old_backups, lines 528-537: rows past the retention age, weekly ones
\* excepted
AgedRows(rows, t, days) ==
    {r \in rows : r.created_at < t - days * DaySeconds /\ r.backup_type # "weekly"}

ExcessRows_OneTooMany(rows, cap) ==
    IF Cardinality(rows) > cap + 1
    THEN OldestRows(rows, Cardinality(rows) - cap)
    ELSE {}

\* cleanup_old_backups, lines 539-546: the oldest rows in excess of the cap
ExcessRows(rows, cap) ==
    IF Cardinality(rows) > cap
    THEN OldestRows(rows, Cardinality(rows) - cap)
    ELSE {}

\* cleanup_old_backups: the rows it removes, with their files
RowsToRemove(rows, t, days, cap) ==
    AgedRows(rows, t, days) \cup ExcessRows(rows, cap)

RowsAfterCleanup(rows, t, days, cap) ==
    rows \ RowsToRemove(rows, t, days, cap)

FilesAfterCleanup(files, rows, t, days, cap) ==
    [p \in Paths |->
        IF \E r \in RowsToRemove(rows, t, days, cap) : r.path = p
        THEN NoFile ELSE files[p]]

NoPath == <<"none", 0>>
NoJob == [backup_id |-> 0, path |-> NoPath, items |-> {}, payload |-> NoPayload]
BkRet(op, ok, msg, path) == [op |-> op, ok |-> ok, msg |-> msg, path |-> path]
NoBkRet == [op |-> None, ok |-> FALSE, msg |-> "-", path |-> NoPath]

InitBackup ==
    /\ retention_days \in RetentionChoices
    /\ max_local_backups \in MaxLocalChoices
    /\ backups = {}
    /\ next_id = 1
    /\ restore_history = <<>>
    /\ archives = [p \in Paths |-> NoFile]
    /\ sources = [i \in Items |-> "a"]
    /\ safety = [i \in Items |-> Absent]
    /\ bk_pc = "idle"
    /\ bk_job = NoJob
    /\ bk_returned = NoBkRet
    /\ creates = 0
    /\ restores = 0
    /\ created_from = {}
    /\ restore_log = <<>>
    /\ now = 0

\* how create_backup can end: the archive is written, recorded and the cleanup
\* run; staging fails before the archive is opened; writing the archive fails and
\* leaves a truncated file; record_backup catches a database error and returns
\* None while create_backup goes on
CreateOutcomes == {"ok", "fail_staging", "fail_archive", "record_fail"}

\* create_backup, lines 214-235: the sources of the requested items that exist,
\* copied to the staging directory
Staged(items) == [i \in Items |-> IF i \in items THEN sources[i] ELSE Absent]

\* create_backup, lines 251-255: the archive takes the regular files under the
\* staging directory (item.is_file()), so a directory without a file in it leaves
\* no entry
Archived(staged) == [i \in Items |-> IF staged[i] = EmptyDir THEN Absent ELSE staged[i]]

\* create_backup, with the cleanup_old_backups it ends with
CreateBackup(items, backup_type) ==
    /\ creates < MaxCreates
    /\ creates' = creates + 1
    /\ \E outcome \in CreateOutcomes :
         LET path == BackupPath(creates + 1)
             file == [payload |-> [files |-> Archived(Staged(items)), manifest |-> items,
                                   stamp |-> creates + 1],
                      state |-> "none"]
             row == [id |-> next_id, backup_type |-> backup_type, path |-> path,
                     created_at |-> now, checksum |-> calculate_file_checksum(file)]
             written == [archives EXCEPT ![path] = file]
             rows == IF outcome = "ok" THEN backups \cup {row} ELSE backups
         IN IF outcome = "fail_staging"
            THEN /\ bk_returned' = BkRet("create_backup", FALSE, "None", NoPath)
                 /\ UNCHANGED <<backups, next_id, archives, created_from>>
            ELSE IF outcome = "fail_archive"
            THEN /\ archives' = [archives EXCEPT ![path] = [file EXCEPT !.state = "truncated"]]
                 /\ bk_returned' = BkRet("create_backup", FALSE, "None", NoPath)
                 /\ UNCHANGED <<backups, next_id, created_from>>
            ELSE /\ backups' = RowsAfterCleanup(rows, now, retention_days, max_local_backups)
                 /\ archives' = FilesAfterCleanup(written, rows, now, retention_days,
                                                  max_local_backups)
                 /\ next_id' = IF outcome = "ok" THEN next_id + 1 ELSE next_id
                 /\ bk_returned' = BkRet("create_backup", TRUE, "path", path)
                 /\ created_from' =
                       IF outcome = "ok"
                       THEN created_from \cup {[id |-> next_id, files |-> Staged(items)]}
                       ELSE created_from
    /\ UNCHANGED <<retention_days, max_local_backups, restore_history, sources, safety,
                   bk_pc, bk_job, restores, now, svc_vars>>
    /\ UNCHANGED restore_log

\* cleanup_old_backups called on its own; it returns nothing, and logs
\* "cleaned up N old backups" when it removed a row (lines 559-560)
CleanupOldBackups ==
    /\ backups' = RowsAfterCleanup(backups, now, retention_days, max_local_backups)
    /\ archives' = FilesAfterCleanup(archives, backups, now, retention_days,
                                     max_local_backups)
    /\ bk_returned' = BkRet("cleanup_old_backups", TRUE,
                            IF RowsToRemove(backups, now, retention_days,
                                            max_local_backups) # {}
                            THEN "cleaned up" ELSE "None", NoPath)
    /\ UNCHANGED <<retention_days, max_local_backups, next_id, restore_history, sources,
                   safety, bk_pc, bk_job, creates, restores, now, svc_vars>>
    /\ UNCHANGED created_from
    /\ UNCHANGED restore_log

\* BackupManager.__init__ in a new process whose configuration was edited; the
\* metadata database and the archives stay on disk
Reconfigure(days, cap) ==
    /\ bk_pc = "idle"
    /\ <<days, cap>> # <<retention_days, max_local_backups>>
    /\ retention_days' = days
    /\ max_local_backups' = cap
    /\ bk_returned' = NoBkRet
    /\ UNCHANGED <<backups, next_id, restore_history, archives, sources, safety, bk_pc,
                   bk_job, creates, restores, now, svc_vars>>
    /\ UNCHANGED created_from
    /\ UNCHANGED restore_log

\* one thing restore_backup does to the service, to a destination or to the audit
\* table; was is what the destination held just before
Op(op, item, was) == [op |-> op, item |-> item, was |-> was]

\* BackupManager.stop_services / start_services
bk_stop_services == service_running' = FALSE /\ UNCHANGED restarts_issued
bk_start_services == service_running' = TRUE /\ UNCHANGED restarts_issued

\* restore_backup, lines 290-322: look the backup up, verify it, extract it to the
\* temp directory and stop the service.  backup_id = 0 stands for None.
RestoreBackupBegin(backup_id, backup_file, restore_items) ==
    /\ bk_pc = "idle"
    /\ restores < MaxRestores
    /\ restores' = restores + 1
    /\ LET backup_info == {r \in backups : r.id = backup_id}
           path == IF backup_id # 0 THEN (CHOOSE r \in backup_info : TRUE).path ELSE backup_file
           fail(msg) == /\ bk_returned' = BkRet("restore_backup", FALSE, msg, NoPath)
                        /\ UNCHANGED <<bk_pc, bk_job, restore_log, svc_vars>>
       IN IF backup_id # 0 /\ backup_info = {}
          THEN fail("backup not found")
          ELSE IF archives[path].state = Absent
          THEN fail("backup file not found")
          ELSE IF ~verify_backup_integrity(path)
          THEN fail("backup integrity check failed")
          ELSE /\ bk_job' = [backup_id |-> backup_id, path |-> path,
                             items |-> restore_items, payload |-> archives[path].payload]
               /\ bk_pc' = "restore_items"
               /\ bk_stop_services
               /\ restore_log' = <<Op("stop", None, None)>>
               /\ bk_returned' = NoBkRet
    /\ UNCHANGED <<retention_days, max_local_backups, backups, next_id, restore_history,
                   archives, sources, safety, creates, now>>
    /\ UNCHANGED created_from

\* restore_backup, line 326: restore_items or metadata['items']
ItemsToRestore(job) ==
    LET wanted == IF job.items # {} THEN job.items ELSE job.payload.manifest
    IN {i \in wanted \cap Items : job.payload.files[i] # Absent}

\* restore_backup, line 326: the order in which the loop goes through the items
ItemOrder == <<"config", "critical_images">>

\* restore_backup, lines 327-357: what the loop does for the items, in order: the
\* '.backup' copy of a destination that exists, then the overwrite
RECURSIVE RestoreOps_WriteFirst(_, _, _)
RestoreOps_WriteFirst(order, restored, dest) ==
    IF order = <<>> THEN <<>>
    ELSE LET i == Head(order)
             ops == IF i \notin restored THEN <<>>
                    ELSE IF dest[i] # Absent
                    THEN <<Op("write", i, dest[i]), Op("safety", i, dest[i])>>
                    ELSE <<Op("write", i, Absent)>>
         IN ops \o RestoreOps_WriteFirst(Tail(order), restored, dest)
RECURSIVE RestoreOps(_, _, _)
RestoreOps(order, restored, dest) ==
    IF order = <<>> THEN <<>>
    ELSE LET i == Head(order)
             ops == IF i \notin restored THEN <<>>
                    ELSE IF dest[i] # Absent
                    THEN <<Op("safety", i, dest[i]), Op("write", i, dest[i])>>
                    ELSE <<Op("write", i, Absent)>>
         IN ops \o RestoreOps(Tail(order), restored, dest)

\* the items a sequence of operations has written / has copied to '.backup'
ItemsOf(ops, kind) == {ops[k].item : k \in {j \in 1..Len(ops) : ops[j].op = kind}}

\* restore_backup, lines 324-371: the safety copies, the overwrites, the audit row
\* and the service start; a copy that raises ends the call through the except
\* clause, after the operations that came before it
RestoreBackupItems ==
    /\ bk_pc = "restore_items"
    /\ bk_pc' = "idle"
    /\ bk_job' = NoJob
    /\ LET restored == ItemsToRestore(bk_job)
           ops == RestoreOps(ItemOrder, restored, sources)
       IN \E done \in 0..Len(ops) :
            LET before == SubSeq(ops, 1, done)
                ok == done = Len(ops)
            IN /\ safety' = [i \in Items |->
                               IF i \in ItemsOf(before, "safety") THEN sources[i]
                               ELSE safety[i]]
               /\ sources' = [i \in Items |->
                                IF i \in ItemsOf(before, "write")
                                THEN bk_job.payload.files[i] ELSE sources[i]]
               /\ IF ok
                  THEN /\ restore_history' =
                             IF bk_job.backup_id # 0
                             THEN Append(restore_history,
                                         [backup_id |-> bk_job.backup_id,
                                          notes |-> restored])
                             ELSE restore_history
                       /\ bk_start_services
                       /\ restore_log' =
                             restore_log \o before
                             \o (IF bk_job.backup_id # 0
                                 THEN <<Op("record", None, None)>> ELSE <<>>)
                             \o <<Op("start", None, None)>>
                       /\ bk_returned' = BkRet("restore_backup", TRUE, "restored", NoPath)
                  ELSE /\ restore_log' = restore_log \o before
                       /\ bk_returned' = BkRet("restore_backup", FALSE, "error", NoPath)
                       /\ UNCHANGED <<restore_history, svc_vars>>
    /\ UNCHANGED <<retention_days, max_local_backups, backups, next_id, archives,
                   creates, restores, now>>
    /\ UNCHANGED created_from

\* the environment: an archive file is damaged on disk
Damages == {"flipped", "truncated", "emptied"}
CorruptArchive(path, damage) ==
    /\ archives[path].state = "none"
    /\ archives' = [archives EXCEPT ![path].state = damage]
    /\ bk_returned' = NoBkRet
    /\ UNCHANGED <<retention_days, max_local_backups, backups, next_id, restore_history,
                   sources, safety, bk_pc, bk_job, creates, restores, now, svc_vars>>
    /\ UNCHANGED created_from
    /\ UNCHANGED restore_log

\* the environment: an archive that the table does not know is put in backup_dir
PutExternalArchive ==
    /\ archives[ExternalPath].state = Absent
    /\ archives' = [archives EXCEPT ![ExternalPath] =
                       [payload |-> [files |-> [i \in Items |-> "b"], manifest |-> Items,
                                     stamp |-> 0],
                        state |-> "none"]]
    /\ bk_returned' = NoBkRet
    /\ UNCHANGED <<retention_days, max_local_backups, backups, next_id, restore_history,
                   sources, safety, bk_pc, bk_job, creates, restores, now, svc_vars>>
    /\ UNCHANGED created_from
    /\ UNCHANGED restore_log

\* the environment: the device rewrites or removes one of its state files
ModifySource(item, content) ==
    /\ sources[item] # content
    /\ sources' = [sources EXCEPT ![item] = content]
    /\ bk_returned' = NoBkRet
    /\ UNCHANGED <<retention_days, max_local_backups, backups, next_id, restore_history,
                   archives, safety, bk_pc, bk_job, creates, restores, now, svc_vars>>
    /\ UNCHANGED created_from
    /\ UNCHANGED restore_log

\* the environment: a day passes
TickDay ==
    /\ now < MaxDays * DaySeconds
    /\ now' = now + DaySeconds
    /\ bk_returned' = NoBkRet
    /\ UNCHANGED <<retention_days, max_local_backups, backups, next_id, restore_history,
                   archives, sources, safety, bk_pc, bk_job, creates, restores, svc_vars>>
    /\ UNCHANGED created_from
    /\ UNCHANGED restore_log

\* the environment: the wall clock time.time() reads is set back by a day (a
\* correction of the system time)
ClockSetBack ==
    /\ now >= DaySeconds
    /\ now' = now - DaySeconds
    /\ bk_returned' = NoBkRet
    /\ UNCHANGED <<retention_days, max_local_backups, backups, next_id, restore_history,
                   archives, sources, safety, bk_pc, bk_job, creates, restores, svc_vars>>
    /\ UNCHANGED created_from
    /\ UNCHANGED restore_log

(***************************************************************************)
(* ErrorRecoveryManager                                                    *)
(***************************************************************************)
CleanupAge == 3600                      \* cleanup_age in cleanup_recovery_state
TickLen == CleanupAge \div 2           \* seconds between two looks at the clock
Cameras == {"entrance"}                 \* available_cameras
CameraRetryChoices == {2, 5}            \* configured max_camera_retries
NetworkRetryChoices == {0, 10}          \* configured max_network_retries
ServiceRestartChoices == {1, 3}         \* configured max_service_restarts
RecoveryIntervals == {30, 7200}         \* configured recovery_interval
MemoryLevels == {"normal", "high", "critical"}

\* keys of self.last_recovery_attempt
CameraKey(camera_type) == "camera_" \o camera_type
NetworkKey == "network"

\* dict[key] = value
Put(dict, key, value) ==
    [k \in DOMAIN dict \cup {key} |-> IF k = key THEN value ELSE dict[k]]

EmptyDict == [k \in {} |-> 0]

RecEvent(op, domain, attempt, ok) ==
    [op |-> op, domain |-> domain, attempt |-> attempt, ok |-> ok]
NoRecEvent == RecEvent(None, None, 0, FALSE)

\* send_critical_alert(alert_type, data): the request posted to /api/camera/alert
Alert(alert_type, domain) == [alert_type |-> alert_type, domain |-> domain]
NoAlert == Alert(None, None)

InitRecovery ==
    /\ camera_failures = EmptyDict
    /\ network_failures = 0
    /\ service_restarts = 0
    /\ last_recovery_attempt = EmptyDict
    /\ max_camera_retries \in CameraRetryChoices
    /\ max_network_retries \in NetworkRetryChoices
    /\ max_service_restarts \in ServiceRestartChoices
    /\ recovery_interval \in RecoveryIntervals
    /\ detection_enabled = [c \in Cameras |-> TRUE]
    /\ rec_event = NoRecEvent
    /\ alert_sent = NoAlert
    /\ attempted_at = EmptyDict
    /\ unhealthy_always = [c \in Cameras |-> TRUE]
    /\ strategies_failed = [c \in Cameras |-> TRUE]
    /\ last_index = [c \in Cameras |-> 0]
    /\ net_streak = 0
    /\ bounce_done = FALSE

\* the check of the recovery interval in handle_camera_failure and
\* handle_network_failure
Debounced(key) ==
    /\ key \in DOMAIN last_recovery_attempt
    /\ now - last_recovery_attempt[key] < recovery_interval

\* restart_service without the check of the counter
RestartAllowed_Always == TRUE

\* ErrorRecoveryManager.restart_service: whether it restarts (and returns True)
RestartAllowed == service_restarts < max_service_restarts

\* ErrorRecoveryManager.restart_service
rec_restart_service ==
    IF RestartAllowed
    THEN /\ service_restarts' = service_restarts + 1
         /\ restarts_issued' = restarts_issued + 1
         /\ service_running' = TRUE
    ELSE UNCHANGED <<service_restarts, svc_vars>>

\* recover_camera: the strategies below the service restart answer what the camera
\* manager answers; from attempt 5 on the answer is restart_service's
recover_camera(attempt, strategy_ok) ==
    IF attempt <= 4 THEN strategy_ok ELSE RestartAllowed

\* recover_network: the answer it gives for an attempt
recover_network(attempt) == attempt <= 5

CameraOutcome_AlwaysRecover(count) == "recover"

\* handle_camera_failure, line 125: another recovery attempt, or the critical
\* handler
CameraOutcome(count) ==
    IF count <= max_camera_retries THEN "recover" ELSE "critical"

\* one iteration of the loop in check_camera_health, with handle_camera_failure,
\* recover_camera and handle_critical_camera_failure
CheckCameraHealth(c, healthy, strategy_ok) ==
    LET known == IF c \in DOMAIN camera_failures THEN camera_failures
                 ELSE Put(camera_failures, c, 0)
        count == known[c] + 1
        result == recover_camera(count, strategy_ok)
    IN /\ unhealthy_always' = [unhealthy_always EXCEPT ![c] = @ /\ ~healthy]
       /\ IF healthy
          THEN /\ camera_failures' = IF c \in DOMAIN camera_failures
                                     THEN Put(camera_failures, c, 0)
                                     ELSE camera_failures
               /\ rec_event' = NoRecEvent
               /\ UNCHANGED <<last_recovery_attempt, detection_enabled, attempted_at,
                              strategies_failed, last_index, service_restarts, svc_vars>>
          ELSE IF Debounced(CameraKey(c))
          THEN /\ camera_failures' = known
               /\ rec_event' = RecEvent("debounced", c, 0, FALSE)
               /\ UNCHANGED <<last_recovery_attempt, detection_enabled, attempted_at,
                              strategies_failed, last_index, service_restarts, svc_vars>>
          ELSE /\ last_recovery_attempt' = Put(last_recovery_attempt, CameraKey(c), now)
               /\ attempted_at' = Put(attempted_at, CameraKey(c), now)
               /\ IF CameraOutcome(count) = "recover"
                  THEN /\ camera_failures' = Put(known, c, IF result THEN 0 ELSE count)
                       /\ IF count >= 5 THEN rec_restart_service
                          ELSE UNCHANGED <<service_restarts, svc_vars>>
                       /\ rec_event' = RecEvent("recover_camera", c, count, result)
                       /\ strategies_failed' =
                             [strategies_failed EXCEPT ![c] = @ /\ ~result]
                       /\ last_index' = [last_index EXCEPT ![c] = count]
                       /\ UNCHANGED detection_enabled
                  ELSE /\ camera_failures' = Put(known, c, count)
                       /\ detection_enabled' = [detection_enabled EXCEPT ![c] = FALSE]
                       /\ rec_event' = RecEvent("critical", c, count, FALSE)
                       /\ UNCHANGED <<strategies_failed, last_index, service_restarts,
                                      svc_vars>>
       /\ alert_sent' = IF ~healthy /\ ~Debounced(CameraKey(c))
                            /\ CameraOutcome(count) = "critical"
                         THEN Alert("camera_failure", c)
                         ELSE NoAlert
       /\ UNCHANGED <<network_failures, max_camera_retries, max_network_retries,
                      max_service_restarts, recovery_interval, net_streak, bounce_done,
                      now>>

\* check_network_health, with handle_network_failure, recover_network and
\* handle_critical_network_failure
CheckNetworkHealth(reachable) ==
    LET count == network_failures + 1
    IN /\ IF reachable
          THEN /\ network_failures' = 0
               /\ net_streak' = 0
               /\ rec_event' = NoRecEvent
               /\ UNCHANGED <<last_recovery_attempt, attempted_at, bounce_done,
                              service_restarts, svc_vars>>
          ELSE IF Debounced(NetworkKey)
          THEN /\ rec_event' = RecEvent("debounced", NetworkKey, 0, FALSE)
               /\ UNCHANGED <<network_failures, net_streak, last_recovery_attempt,
                              attempted_at, bounce_done, service_restarts, svc_vars>>
          ELSE /\ last_recovery_attempt' = Put(last_recovery_attempt, NetworkKey, now)
               /\ attempted_at' = Put(attempted_at, NetworkKey, now)
               /\ net_streak' = net_streak + 1
               /\ IF count <= max_network_retries
                  THEN /\ network_failures' = IF recover_network(count) THEN 0 ELSE count
                       /\ bounce_done' = (bounce_done \/ count = 4)
                       /\ rec_event' = RecEvent("recover_network", NetworkKey, count,
                                                recover_network(count))
                       /\ UNCHANGED <<service_restarts, svc_vars>>
                  ELSE /\ network_failures' = count
                       /\ rec_restart_service
                       /\ rec_event' = RecEvent("critical", NetworkKey, count, FALSE)
                       /\ UNCHANGED bounce_done
       /\ alert_sent' = NoAlert
       /\ UNCHANGED <<camera_failures, max_camera_retries, max_network_retries,
                      max_service_restarts, recovery_interval, detection_enabled,
                      unhealthy_always, strategies_failed, last_index, now>>

\* check_memory_usage with handle_high_memory_usage: "high" is above the threshold
\* and at most 90 percent after the collection, "critical" still above 90
CheckMemoryUsage(level) ==
    /\ IF level = "critical" THEN rec_restart_service
       ELSE UNCHANGED <<service_restarts, svc_vars>>
    /\ rec_event' = IF level = "critical"
                    THEN RecEvent("memory", level, 0, RestartAllowed)
                    ELSE NoRecEvent
    /\ alert_sent' = NoAlert
    /\ UNCHANGED <<camera_failures, network_failures, last_recovery_attempt,
                   max_camera_retries, max_network_retries, max_service_restarts,
                   recovery_interval, detection_enabled, attempted_at, unhealthy_always,
                   strategies_failed, last_index, net_streak, bounce_done, now>>

\* configured memory_threshold: the default, and a lower one
DefaultMemoryThreshold == 85
MemoryThresholdChoices == {80, DefaultMemoryThreshold}

\* the percentage handle_high_memory_usage compares the second reading with
CriticalPercent == 90

\* values of psutil.virtual_memory().percent
MemoryReadings == {70, 81, 86, 91, 95}

NoMemEvent == [first |-> 0, second |-> 0, warned |-> FALSE, collected |-> FALSE,
               requested |-> FALSE]

InitMemory ==
    /\ memory_threshold = DefaultMemoryThreshold
    /\ mem_event = NoMemEvent

\* what the two readings of check_memory_usage and handle_high_memory_usage come to
MemoryLevel(first, second) ==
    IF first > memory_threshold
    THEN IF second > CriticalPercent THEN "critical" ELSE "high"
    ELSE "normal"

\* check_memory_usage reading `first`, and handle_high_memory_usage reading
\* `second` after the collection: the warning of line 284, gc.collect() of line
\* 294 and the call of restart_service of line 301
ReadMemory(first, second) ==
    /\ CheckMemoryUsage(MemoryLevel(first, second))
    /\ mem_event' = [first |-> first,
                     second |-> IF first > memory_threshold THEN second ELSE 0,
                     warned |-> first > memory_threshold,
                     collected |-> first > memory_threshold,
                     requested |-> first > memory_threshold /\ second > CriticalPercent]
    /\ UNCHANGED memory_threshold

\* cleanup_recovery_state that also drops the failure counters
CleanupRecoveryState_DropsCounters ==
    /\ last_recovery_attempt' =
          [k \in {key \in DOMAIN last_recovery_attempt :
                    ~(now - last_recovery_attempt[key] > CleanupAge)}
             |-> last_recovery_attempt[k]]
    /\ camera_failures' = EmptyDict
    /\ network_failures' = 0
    /\ rec_event' = RecEvent("cleanup", None, 0, FALSE)
    /\ alert_sent' = NoAlert
    /\ UNCHANGED <<service_restarts,
                   max_camera_retries, max_network_retries, max_service_restarts,
                   recovery_interval, detection_enabled, attempted_at, unhealthy_always,
                   strategies_failed, last_index, net_streak, bounce_done, now, svc_vars>>
\* cleanup_recovery_state
CleanupRecoveryState ==
    /\ last_recovery_attempt' =
          [k \in {key \in DOMAIN last_recovery_attempt :
                    ~(now - last_recovery_attempt[key] > CleanupAge)}
             |-> last_recovery_attempt[k]]
    /\ rec_event' = RecEvent("cleanup", None, 0, FALSE)
    /\ alert_sent' = NoAlert
    /\ UNCHANGED <<camera_failures, network_failures, service_restarts,
                   max_camera_retries, max_network_retries, max_service_restarts,
                   recovery_interval, detection_enabled, attempted_at, unhealthy_always,
                   strategies_failed, last_index, net_streak, bounce_done, now, svc_vars>>

\* the environment: time passes
TickRecovery ==
    /\ now < MaxTicks * TickLen
    /\ now' = now + TickLen
    /\ rec_event' = NoRecEvent
    /\ alert_sent' = NoAlert
    /\ UNCHANGED <<camera_failures, network_failures, service_restarts,
                   last_recovery_attempt, max_camera_retries, max_network_retries,
                   max_service_restarts, recovery_interval, detection_enabled,
                   attempted_at, unhealthy_always, strategies_failed, last_index,
                   net_streak, bounce_done, svc_vars>>

(***************************************************************************)
(* Polling loops: start and stop of the escalator's monitoring, of the     *)
(* updater's update service and of the backup scheduler                    *)
(***************************************************************************)
\* ErrorRecoveryManager (start_monitoring), OTAUpdater (start_update_service, with
\* an update server configured) and BackupManager (start_scheduler)
PollingComponents == {"escalator", "updater", "scheduler"}

\* Thread.is_alive(): a worker thread is not created yet ("unborn"), at the test
\* of `while self.running`, inside an iteration ("work"), in the sleep that ends an
\* iteration, or returned from its target ("dead")
IsAlive(c, w) == worker[c][w] \in {"test", "work", "sleep"}

\* the threads of a component that are alive
LiveWorkers(c) == {w \in 1..MaxWorkers : IsAlive(c, w)}

LoopCall(op, c) == [op |-> op, component |-> c]

InitLoops ==
    /\ running = [c \in PollingComponents |-> FALSE]
    /\ held_thread = [c \in PollingComponents |-> 0]
    /\ worker = [c \in PollingComponents |-> [w \in 1..MaxWorkers |-> "unborn"]]
    /\ joining = [c \in PollingComponents |-> FALSE]
    /\ loops = [c \in PollingComponents |-> 0]
    /\ loop_call = LoopCall(None, None)

\* start_monitoring / start_update_service / start_scheduler: nothing is done
\* when the thread the component holds is alive
StartLoop(c) ==
    /\ ~joining[c]
    /\ IF held_thread[c] # 0 /\ IsAlive(c, held_thread[c])
       THEN UNCHANGED <<running, held_thread, worker>>
       ELSE /\ held_thread[c] < MaxWorkers
            /\ running' = [running EXCEPT ![c] = TRUE]
            /\ held_thread' = [held_thread EXCEPT ![c] = @ + 1]
            /\ worker' = [worker EXCEPT ![c][held_thread[c] + 1] = "test"]
    /\ loop_call' = LoopCall("start", c)
    /\ UNCHANGED <<joining, loops>>

\* stop_monitoring / stop_update_service / stop_scheduler, up to the join
StopLoop(c) ==
    /\ ~joining[c]
    /\ running' = [running EXCEPT ![c] = FALSE]
    /\ joining' = [joining EXCEPT ![c] = held_thread[c] # 0]
    /\ loop_call' = IF held_thread[c] # 0 THEN loop_call ELSE LoopCall("stop", c)
    /\ UNCHANGED <<held_thread, worker, loops>>

\* join(timeout=10) returns: the thread has ended, or ten seconds have passed
\* while it is still in its iteration or its sleep
JoinReturns(c) ==
    /\ joining[c]
    /\ worker[c][held_thread[c]] # "test"
    /\ joining' = [joining EXCEPT ![c] = FALSE]
    /\ loop_call' = LoopCall("stop", c)
    /\ UNCHANGED <<running, held_thread, worker, loops>>

\* the worker reads self.running: another iteration, or the end of the thread
WorkerTests(c, w) ==
    /\ worker[c][w] = "test"
    /\ IF running[c]
       THEN /\ loops[c] < MaxLoops
            /\ loops' = [loops EXCEPT ![c] = @ + 1]
            /\ worker' = [worker EXCEPT ![c][w] = "work"]
       ELSE /\ worker' = [worker EXCEPT ![c][w] = "dead"]
            /\ UNCHANGED loops
    /\ UNCHANGED <<running, held_thread, joining, loop_call>>

\* the body of the iteration is over, with or without an exception: time.sleep
WorkerSleeps(c, w) ==
    /\ worker[c][w] = "work"
    /\ worker' = [worker EXCEPT ![c][w] = "sleep"]
    /\ UNCHANGED <<running, held_thread, joining, loops, loop_call>>

\* time.sleep returns
WorkerWakes(c, w) ==
    /\ worker[c][w] = "sleep"
    /\ worker' = [worker EXCEPT ![c][w] = "test"]
    /\ UNCHANGED <<running, held_thread, joining, loops, loop_call>>

(***************************************************************************)
(* Exceptions: where an exception raised inside the monitoring loop or     *)
(* inside a public operation is caught                                     *)
(***************************************************************************)
\* a frame of the call stack: the function, and whether the call it is making
\* stands inside the try block of a try/except Exception of that function
Frame(fn, guarded) == [fn |-> fn, guarded |-> guarded]

\* the calls monitoring_worker makes in one iteration, in order (lines 66-80)
WorkerCalls == <<"check_camera_health", "check_network_health", "check_memory_usage",
                 "check_disk_space", "cleanup_recovery_state", "sleep">>

\* the places under each call of the loop where an exception can be raised, each
\* with its call stack, innermost frame first
WorkerSites ==
    [check_camera_health |->
        {[site |-> "is_camera_healthy",
          stack |-> <<Frame("check_camera_health", TRUE),
                      Frame("monitoring_worker", TRUE)>>],
         [site |-> "camera strategy",
          stack |-> <<Frame("recover_camera", TRUE),
                      Frame("handle_camera_failure", FALSE),
                      Frame("check_camera_health", TRUE),
                      Frame("monitoring_worker", TRUE)>>],
         [site |-> "restart command",
          stack |-> <<Frame("restart_service", TRUE),
                      Frame("recover_camera", TRUE),
                      Frame("handle_camera_failure", FALSE),
                      Frame("check_camera_health", TRUE),
                      Frame("monitoring_worker", TRUE)>>],
         [site |-> "detection config",
          stack |-> <<Frame("handle_critical_camera_failure", FALSE),
                      Frame("handle_camera_failure", FALSE),
                      Frame("check_camera_health", TRUE),
                      Frame("monitoring_worker", TRUE)>>],
         [site |-> "alert post",
          stack |-> <<Frame("send_critical_alert", TRUE),
                      Frame("handle_critical_camera_failure", FALSE),
                      Frame("handle_camera_failure", FALSE),
                      Frame("check_camera_health", TRUE),
                      Frame("monitoring_worker", TRUE)>>]},
     check_network_health |->
        {[site |-> "health request",
          stack |-> <<Frame("check_network_health", TRUE),
                      Frame("monitoring_worker", TRUE)>>],
         \* handle_network_failure is called from the except clause of
         \* check_network_health, outside its try block
         [site |-> "recovery interval",
          stack |-> <<Frame("handle_network_failure", FALSE),
                      Frame("check_network_health", FALSE),
                      Frame("monitoring_worker", TRUE)>>],
         [site |-> "network strategy",
          stack |-> <<Frame("recover_network", TRUE),
                      Frame("handle_network_failure", FALSE),
                      Frame("check_network_health", FALSE),
                      Frame("monitoring_worker", TRUE)>>]},
     check_memory_usage |->
        {[site |-> "memory probe",
          stack |-> <<Frame("check_memory_usage", TRUE),
                      Frame("monitoring_worker", TRUE)>>],
         [site |-> "collection",
          stack |-> <<Frame("handle_high_memory_usage", TRUE),
                      Frame("check_memory_usage", TRUE),
                      Frame("monitoring_worker", TRUE)>>]},
     check_disk_space |->
        {[site |-> "disk probe",
          stack |-> <<Frame("check_disk_space", TRUE),
                      Frame("monitoring_worker", TRUE)>>],
         [site |-> "file removal",
          stack |-> <<Frame("cleanup_old_files", TRUE),
                      Frame("handle_low_disk_space", TRUE),
                      Frame("check_disk_space", TRUE),
                      Frame("monitoring_worker", TRUE)>>]},
     cleanup_recovery_state |->
        {[site |-> "state cleanup",
          stack |-> <<Frame("cleanup_recovery_state", FALSE),
                      Frame("monitoring_worker", TRUE)>>]},
     sleep |-> {}]

\* the public operations, the value each returns from its except clause, and the
\* places where an exception can be raised under them
PublicOps == {"perform_update", "create_backup", "restore_backup"}
FailureValue ==
    [perform_update |-> "False", create_backup |-> "None", restore_backup |-> "(False, str(e))"]
PublicSites ==
    [perform_update |->
        {[site |-> "raise in the try block",
          stack |-> <<Frame("perform_update", TRUE)>>],
         [site |-> "download",
          stack |-> <<Frame("download_update_package", TRUE),
                      Frame("perform_update", TRUE)>>],
         \* rollback_update and cleanup_temp_files are called from the except and
         \* the finally clause of perform_update
         [site |-> "rollback extraction",
          stack |-> <<Frame("rollback_update", TRUE),
                      Frame("perform_update", FALSE)>>],
         [site |-> "rmtree of temp_dir",
          stack |-> <<Frame("cleanup_temp_files", TRUE),
                      Frame("perform_update", FALSE)>>]},
     create_backup |->
        {[site |-> "staging copy",
          stack |-> <<Frame("create_backup", TRUE)>>],
         [site |-> "database insert",
          stack |-> <<Frame("record_backup", TRUE),
                      Frame("create_backup", TRUE)>>],
         [site |-> "rmtree of staging",
          stack |-> <<Frame("create_backup", TRUE)>>]},
     restore_backup |->
        {[site |-> "archive extraction",
          stack |-> <<Frame("restore_backup", TRUE)>>],
         [site |-> "item copy",
          stack |-> <<Frame("restore_backup", TRUE)>>],
         [site |-> "systemctl start",
          stack |-> <<Frame("start_services", TRUE),
                      Frame("restore_backup", TRUE)>>]}]

\* Python's propagation with only the innermost frame looked at
CaughtBy_InnermostOnly(stack) ==
    IF stack[1].guarded THEN stack[1].fn ELSE "uncaught"
\* Python's propagation: the innermost frame whose try block the call stands in
\* catches the exception; with no such frame it leaves the outermost function
CaughtBy(stack) ==
    LET guarded == {k \in 1..Len(stack) : stack[k].guarded}
    IN IF guarded = {} THEN "uncaught"
       ELSE stack[CHOOSE k \in guarded : \A j \in guarded : k <= j].fn

NoFault == [site |-> None, caught_by |-> None]
NoCall == [op |-> None, site |-> None, outcome |-> None]

InitFaults ==
    /\ mw_pc = 1
    /\ mw_alive = TRUE
    /\ mw_fault = NoFault
    /\ iterations = 1
    /\ call_result = NoCall

\* monitoring_worker, lines 66-78: the next call of the iteration returns
WorkerCallReturns ==
    /\ mw_alive
    /\ WorkerCalls[mw_pc] # "sleep"
    /\ mw_pc' = mw_pc + 1
    /\ mw_fault' = NoFault
    /\ UNCHANGED <<mw_alive, iterations, call_result>>

\* monitoring_worker, lines 66-84: an exception is raised under the next call of
\* the iteration.  Caught below the worker, the call returns and the iteration
\* goes on; caught by the worker (lines 82-84), the rest of the iteration is
\* left out and the loop sleeps; not caught, the thread ends.
WorkerCallRaises(s) ==
    /\ mw_alive
    /\ s \in WorkerSites[WorkerCalls[mw_pc]]
    /\ mw_fault' = [site |-> s.site, caught_by |-> CaughtBy(s.stack)]
    /\ mw_alive' = (CaughtBy(s.stack) # "uncaught")
    /\ mw_pc' = IF CaughtBy(s.stack) = "monitoring_worker" THEN Len(WorkerCalls)
                ELSE mw_pc + 1
    /\ UNCHANGED <<iterations, call_result>>

\* monitoring_worker, lines 63, 80 and 84: the sleep ends and the loop condition
\* is read again
WorkerNextIteration ==
    /\ mw_alive
    /\ WorkerCalls[mw_pc] = "sleep"
    /\ iterations < MaxIterations
    /\ iterations' = iterations + 1
    /\ mw_pc' = 1
    /\ UNCHANGED <<mw_alive, mw_fault, call_result>>

\* a public operation is called and an exception is raised under it
CallPublicRaises(op, s) ==
    /\ s \in PublicSites[op]
    /\ call_result' = [op |-> op, site |-> s.site,
                       outcome |-> IF CaughtBy(s.stack) = "uncaught" THEN "raised"
                                   ELSE IF CaughtBy(s.stack) = op THEN FailureValue[op]
                                   ELSE "went on"]
    /\ call_result' # call_result
    /\ UNCHANGED <<mw_pc, mw_alive, mw_fault, iterations>>

(***************************************************************************)
(* Specifications                                                          *)
(***************************************************************************)
OTAFrame == UNCHANGED <<step_vars, bk_vars, rec_vars, fault_vars, mem_vars, loop_vars, now>>
BackupFrame == UNCHANGED <<ota_vars, step_vars, rec_vars, fault_vars, mem_vars, loop_vars>>
RecoveryFrame == UNCHANGED <<ota_vars, step_vars, bk_vars, fault_vars, mem_vars, loop_vars>>
StepFrame == UNCHANGED <<update_status, current_version, auto_update, backup_before_update,
                         temp_dir, pc, info, reason, returned, triggers, served, calls,
                         origin, bk_vars,
                         rec_vars, fault_vars, mem_vars, loop_vars, now>>
FaultFrame == UNCHANGED <<ota_vars, step_vars, bk_vars, rec_vars, mem_vars, loop_vars, now,
                          svc_vars>>
MemoryFrame == UNCHANGED <<ota_vars, step_vars, bk_vars, fault_vars, loop_vars>>
LoopFrame == UNCHANGED <<ota_vars, step_vars, bk_vars, rec_vars, fault_vars, mem_vars, now,
                         svc_vars>>

NextOTA ==
    \/ Poll /\ OTAFrame
    \/ \E s \in Spawned : ManualUpdateCheck(s) /\ OTAFrame
    \/ \E force \in BOOLEAN : ManualUpdate(force) /\ OTAFrame
    \/ \E s \in Spawned : ManualUpdateStart(s) /\ OTAFrame
    \/ \E t \in Threads : CheckForUpdates(t) /\ OTAFrame
    \/ \E t \in Threads : PerformUpdateGuard(t) /\ OTAFrame
    \/ \E t \in Threads : PerformUpdateBegin(t) /\ OTAFrame
    \/ \E t \in Threads : PerformUpdateBackup(t) /\ OTAFrame
    \/ \E t \in Threads : PerformUpdateDownload(t) /\ OTAFrame
    \/ \E t \in Threads : PerformUpdateVerify(t) /\ OTAFrame
    \/ \E t \in Threads : PerformUpdateExtractApply(t) /\ OTAFrame
    \/ \E t \in Threads : PerformUpdateExcept(t) /\ OTAFrame
    \/ \E t \in Threads : PerformUpdateFinally(t) /\ OTAFrame

ItemChoices == {Items, {"config"}}
RestoreItemChoices == {{}, {"config"}}

\* rotation of the archives: creation, cleanup, a changed configuration, time
NextBackup ==
    \/ \E ty \in BackupTypes : CreateBackup(Items, ty) /\ BackupFrame
    \/ CleanupOldBackups /\ BackupFrame
    \/ \E days \in RetentionChoices, cap \in MaxLocalChoices :
         Reconfigure(days, cap) /\ BackupFrame
    \/ TickDay /\ BackupFrame

\* restoring: creation, damage to the archives, changes of the sources, restore
NextRestore ==
    \/ \E items \in ItemChoices :
         creates < MaxRestorable /\ CreateBackup(items, "manual") /\ BackupFrame
    \/ \E id \in 1..MaxCreates, items \in RestoreItemChoices :
         RestoreBackupBegin(id, NoPath, items) /\ BackupFrame
    \/ \E path \in Paths, items \in RestoreItemChoices :
         RestoreBackupBegin(0, path, items) /\ BackupFrame
    \/ RestoreBackupItems /\ BackupFrame
    \/ \E path \in Paths, damage \in Damages : CorruptArchive(path, damage) /\ BackupFrame
    \/ PutExternalArchive /\ BackupFrame
    \/ \E item \in Items :
         \E c \in SourceStates(item) : ModifySource(item, c) /\ BackupFrame

NextRecovery ==
    \/ \E c \in Cameras, healthy \in BOOLEAN, strategy_ok \in BOOLEAN :
         CheckCameraHealth(c, healthy, strategy_ok) /\ RecoveryFrame
    \/ \E reachable \in BOOLEAN : CheckNetworkHealth(reachable) /\ RecoveryFrame
    \/ \E level \in MemoryLevels : CheckMemoryUsage(level) /\ RecoveryFrame
    \/ CleanupRecoveryState /\ RecoveryFrame
    \/ TickRecovery /\ RecoveryFrame

Init ==
    /\ InitOTA /\ InitSteps /\ InitBackup /\ InitRecovery /\ InitFaults /\ InitService
    /\ InitMemory /\ InitLoops

\* the configuration a component has when the runs look at another one
FixedUpdaterConfig == auto_update /\ backup_before_update
FixedBackupConfig == retention_days = 2 /\ max_local_backups = 3
FixedRecoveryConfig ==
    /\ max_camera_retries = 5
    /\ max_network_retries = 10
    /\ max_service_restarts = 3
    /\ recovery_interval = 30

\* the updater alone
InitUpdater == Init /\ FixedBackupConfig /\ FixedRecoveryConfig

Spec == InitUpdater /\ [][NextOTA]_vars

\* the updater's methods called one by one, on an install tree with or without a
\* VERSION file
NextSteps ==
    \/ CallCreateBackup /\ StepFrame
    \/ \E version \in OfferedVersions, outcome \in ApplyOutcomes :
         CallApplyUpdate(version, outcome) /\ StepFrame
    \/ \E version \in OfferedVersions, syntax_ok \in BOOLEAN :
         CallVerifyUpdate(version, syntax_ok) /\ StepFrame
    \/ CallRollbackUpdate /\ StepFrame
    \/ \E name \in PackageNames, readable \in BOOLEAN :
         CallExtractUpdatePackage(name, readable) /\ StepFrame

InitInstalled ==
    /\ update_status = [last_check |-> None, available_version |-> None,
                        update_in_progress |-> FALSE, last_update |-> None,
                        update_result |-> None]
    /\ install_tree \in {[marker |-> m, files |-> DefaultVersion] :
                             m \in {"absent", DefaultVersion}}
    /\ current_version = get_current_version(install_tree)
    /\ auto_update = TRUE
    /\ backup_before_update = TRUE
    /\ temp_dir = NoTemp
    /\ snapshots = <<>>
    /\ pc = [t \in Threads |-> "idle"]
    /\ info = [t \in Threads |-> NoInfo]
    /\ reason = [t \in Threads |-> None]
    /\ returned = NoRet
    /\ triggers = 0
    /\ served = [t \in Threads |-> None]
    /\ calls = <<>>
    /\ origin = [t \in Threads |-> 0]
    /\ InitSteps /\ InitBackup /\ InitRecovery /\ InitFaults /\ InitService
    /\ InitMemory /\ InitLoops
    /\ FixedBackupConfig /\ FixedRecoveryConfig

SpecSteps == InitInstalled /\ [][NextSteps]_vars

\* the exceptions raised under the monitoring loop and the public operations
AllWorkerSites == UNION {WorkerSites[c] : c \in DOMAIN WorkerSites}
AllPublicSites == UNION {PublicSites[op] : op \in PublicOps}

NextFaults ==
    \/ WorkerCallReturns /\ FaultFrame
    \/ \E s \in AllWorkerSites : WorkerCallRaises(s) /\ FaultFrame
    \/ WorkerNextIteration /\ FaultFrame
    \/ \E op \in PublicOps, s \in AllPublicSites : CallPublicRaises(op, s) /\ FaultFrame

InitHandlers == Init /\ FixedUpdaterConfig /\ FixedBackupConfig /\ FixedRecoveryConfig

SpecFaults == InitHandlers /\ [][NextFaults]_vars

\* the memory check of the escalator under each configured threshold
NextMemory ==
    \E first \in MemoryReadings, second \in MemoryReadings :
       ReadMemory(first, second) /\ MemoryFrame

InitMemoryHandling ==
    /\ InitOTA /\ InitSteps /\ InitBackup /\ InitRecovery /\ InitFaults /\ InitService
    /\ InitLoops
    /\ FixedUpdaterConfig /\ FixedBackupConfig
    /\ memory_threshold \in MemoryThresholdChoices
    /\ mem_event = NoMemEvent

SpecMemory == InitMemoryHandling /\ [][NextMemory]_vars

\* the audit trail of the restores: creation, restore by id, cleanup, time
NextAudit ==
    \/ \E ty \in BackupTypes : CreateBackup(Items, ty) /\ BackupFrame
    \/ \E id \in 1..MaxCreates, items \in RestoreItemChoices :
         RestoreBackupBegin(id, NoPath, items) /\ BackupFrame
    \/ RestoreBackupItems /\ BackupFrame
    \/ CleanupOldBackups /\ BackupFrame
    \/ TickDay /\ BackupFrame

\* the polling loops of the three components, started and stopped
NextLoops ==
    \/ \E c \in PollingComponents : StartLoop(c) /\ LoopFrame
    \/ \E c \in PollingComponents : StopLoop(c) /\ LoopFrame
    \/ \E c \in PollingComponents : JoinReturns(c) /\ LoopFrame
    \/ \E c \in PollingComponents, w \in 1..MaxWorkers : WorkerTests(c, w) /\ LoopFrame
    \/ \E c \in PollingComponents, w \in 1..MaxWorkers : WorkerSleeps(c, w) /\ LoopFrame
    \/ \E c \in PollingComponents, w \in 1..MaxWorkers : WorkerWakes(c, w) /\ LoopFrame

SpecLoops == InitHandlers /\ [][NextLoops]_vars

\* the escalator alone
InitEscalator == Init /\ FixedUpdaterConfig /\ FixedBackupConfig

SpecRecovery == InitEscalator /\ [][NextRecovery]_vars

\* the backup manager alone, next to an updater left in its default configuration
InitBackupManager == Init /\ FixedUpdaterConfig /\ FixedRecoveryConfig

SpecBackup == InitBackupManager /\ [][NextBackup]_vars

SpecAudit == InitBackupManager /\ [][NextAudit]_vars

\* creation under a wall clock that moves forward and is set back
NextClock ==
    \/ \E ty \in BackupTypes : CreateBackup(Items, ty) /\ BackupFrame
    \/ TickDay /\ BackupFrame
    \/ ClockSetBack /\ BackupFrame

SpecClock == InitBackupManager /\ [][NextClock]_vars

\* restoring is looked at under one retention configuration
InitRestore == InitBackupManager /\ FixedBackupConfig

SpecRestore == InitRestore /\ [][NextRestore]_vars

(***************************************************************************)
(* Properties of the updater                                               *)
(***************************************************************************)

\* a thread that is past perform_update's update_in_progress guard and has not
\* yet left the finally clause
PastGuard(t) ==
    pc[t] \in {"pu_begin", "pu_backup", "pu_download", "pu_verify", "pu_extract",
               "pu_except", "pu_finally"}

\* C1: under every interleaving of the poller thread and the manually triggered
\* threads, at most one execution of perform_update is past the
\* update_in_progress guard at any time.
C1_SingleFlight ==
    Cardinality({t \in Threads : PastGuard(t)}) <= 1

\* C2: a call of perform_update or manual_update made while update_in_progress is
\* true returns the 'already in progress' result and leaves update_status, the
\* temp directory and the install tree (and the snapshots and the service) as
\* they were.
C2_RejectedCallTouchesNothing ==
    [][ /\ \A t \in Threads :
            (update_status.update_in_progress /\ PerformUpdateGuard(t))
              => /\ returned' = Ret(t, FALSE, "update already in progress")
                 /\ UNCHANGED <<update_status, temp_dir, install_tree, snapshots, svc_vars>>
        /\ \A force \in BOOLEAN :
            (update_status.update_in_progress /\ ManualUpdate(force))
              => /\ returned' = Ret(Api, FALSE, "update already in progress")
                 /\ pc'[Api] = "idle"
                 /\ UNCHANGED <<update_status, temp_dir, install_tree, snapshots, svc_vars>>
      ]_vars

\* C2 witness: a caller has just been turned away while another update is in
\* flight, with its flag still set and its downloaded package still in place
C2_Witness ==
    /\ returned.msg = "update already in progress"
    /\ update_status.update_in_progress
    /\ temp_dir.exists
    /\ \E t \in Threads : PastGuard(t) /\ t # returned.thread

(***************************************************************************)
(* Properties of the backup manager                                        *)
(***************************************************************************)
\* the archive a restore_backup call is about: the one of the row when an id is
\* given, else the file named
RestoreTarget(backup_id, backup_file) ==
    IF backup_id # 0 THEN {r.path : r \in {q \in backups : q.id = backup_id}}
    ELSE {backup_file} \cap Paths

\* the restore_backup calls looked at: by id, or by file
RestoreCalls ==
    {<<id, NoPath>> : id \in 1..MaxCreates} \cup {<<0, path>> : path \in Paths}

\* the archive cannot be opened, is empty, or differs from its recorded checksum
IntegrityFails(path) ==
    \/ archives[path].state = "truncated"
    \/ archives[path].state = "emptied"
    \/ \E r \in backups : /\ r.path = path
                           /\ r.checksum # calculate_file_checksum(archives[path])

\* C3: a restore_backup call whose archive exists and fails integrity verification
\* returns a failure, leaves the service running state as it was, and changes no
\* destination path, no safety copy and no archive; it does not go on to the
\* restoring step.
C3_FailedIntegrityStopsRestore ==
    [][\A call \in RestoreCalls, items \in RestoreItemChoices :
         (/\ RestoreBackupBegin(call[1], call[2], items)
          /\ \E p \in RestoreTarget(call[1], call[2]) :
                archives[p].state # Absent /\ IntegrityFails(p))
         => /\ bk_returned' = BkRet("restore_backup", FALSE,
                                    "backup integrity check failed", NoPath)
            /\ bk_pc' = "idle"
            /\ UNCHANGED <<svc_vars, sources, safety, archives, restore_history>>]_vars

\* a restore of a recorded archive whose bytes were changed has just been refused
C3_Witness ==
    /\ bk_returned = BkRet("restore_backup", FALSE, "backup integrity check failed", NoPath)
    /\ archives[ExternalPath].state = Absent
    /\ \E r \in backups : archives[r.path].state = "flipped"
    /\ service_running

\* a step in which cleanup_old_backups has run to its end
CleanupCompleted ==
    \/ CleanupOldBackups
    \/ \E ty \in BackupTypes : CreateBackup(Items, ty) /\ bk_returned'.ok

NoneAged(rows, t, days) == \A r \in rows : r.created_at >= t - days * DaySeconds

CameraReport(c) == \E strategy_ok \in BOOLEAN : CheckCameraHealth(c, FALSE, strategy_ok)

\* a step in which a failure of the network is reported to handle_network_failure
NetworkReport == CheckNetworkHealth(FALSE)

\* less than recovery_interval has passed since the domain's last recovery attempt
WithinInterval(key) ==
    /\ key \in DOMAIN attempted_at
    /\ now - attempted_at[key] < recovery_interval

\* C7: a failure report that comes less than recovery_interval after the last
\* recovery attempt for the same domain changes neither the failure counter nor
\* the last-attempt time and runs no strategy, whatever ran in between.
C7_SecondReportDebounced ==
    [][/\ \A c \in Cameras :
            (CameraReport(c) /\ WithinInterval(CameraKey(c)))
            => /\ rec_event' = RecEvent("debounced", c, 0, FALSE)
               /\ camera_failures' = camera_failures
               /\ last_recovery_attempt' = last_recovery_attempt
       /\ (NetworkReport /\ WithinInterval(NetworkKey))
            => /\ rec_event' = RecEvent("debounced", NetworkKey, 0, FALSE)
               /\ network_failures' = network_failures
               /\ last_recovery_attempt' = last_recovery_attempt]_vars

\* what the ladder does on a report that is not debounced, when the index of the
\* last recover_camera call is last_index[c]: the next index, or the critical
\* handler once max_camera_retries indices have run
LadderStep(c) ==
    IF last_index[c] < max_camera_retries
    THEN /\ rec_event'.op = "recover_camera"
         /\ rec_event'.domain = c
         /\ rec_event'.attempt = last_index[c] + 1
    ELSE rec_event' = RecEvent("critical", c, camera_failures[c] + 1, FALSE)

\* C8 as stated: for a camera that fails every health check, every recovery
\* attempt runs the ladder one index above the previous attempt, and once index
\* max_camera_retries has run the reports go to the critical handler.
C8_LadderStrictlyIncreasing ==
    [][\A c \in Cameras :
         (/\ CameraReport(c)
          /\ unhealthy_always[c]
          /\ ~Debounced(CameraKey(c)))
         => LadderStep(c)]_vars

\* C8, amended: for a camera that fails every health check and whose every
\* recovery strategy so far has reported failure, every recovery attempt runs the
\* ladder one index above the previous attempt, up to max_camera_retries; after
\* that every report that is not debounced goes to the critical handler and
\* recover_camera is not called.
C8_LadderWhileStrategiesFail ==
    [][\A c \in Cameras :
         (/\ CameraReport(c)
          /\ unhealthy_always[c]
          /\ strategies_failed[c]
          /\ ~Debounced(CameraKey(c)))
         => LadderStep(c)]_vars

\* the camera failed every check, every strategy up to max_camera_retries reported
\* failure, and the critical handler has just run
C8_Witness ==
    \E c \in Cameras :
        /\ rec_event.op = "critical"
        /\ rec_event.domain = c
        /\ unhealthy_always[c]
        /\ strategies_failed[c]
        /\ last_index[c] = max_camera_retries
        /\ ~detection_enabled[c]

\* C9: once the network has gone through four recovery attempts in a row without
\* a good health check in between, the interface bounce has been run.
C9_BounceAfterBackoff == net_streak >= 4 => bounce_done

\* C10: the service restarts issued by the updater and the escalator together
\* never exceed max_service_restarts.
C10_SharedRestartBudget == restarts_issued <= max_service_restarts

(***************************************************************************)
(* Properties of the updater: failures of an update                        *)
(***************************************************************************)
\* C11: when create_backup fails, the except clause of perform_update stops or
\* restarts no service and extracts no archive over the install tree.
C11_FailedSnapshotTouchesNothing ==
    [][\A t \in Threads :
         (PerformUpdateExcept(t) /\ reason[t] = "failed to create backup")
         => UNCHANGED <<svc_vars, install_tree>>]_vars

\* the downloaded package of the thread's update differs from the checksum the
\* update information carries
ChecksumMismatch(t) ==
    /\ info[t].checksum # None
    /\ temp_dir.package[info[t].version] # info[t].checksum

\* C12: a perform_update whose package differs from the checksum of its update
\* information fails at the verification; from then on it never reaches the
\* extraction, and the files and the version marker of the install tree keep
\* their values.
C12_MismatchedPackageNotApplied ==
    [][\A t \in Threads :
         /\ (PerformUpdateVerify(t) /\ ChecksumMismatch(t))
            => /\ pc'[t] = "pu_except"
               /\ reason'[t] = "package integrity verification failed"
               /\ install_tree' = install_tree
         /\ reason[t] = "package integrity verification failed"
            => /\ pc'[t] # "pu_extract"
               /\ get_current_version(install_tree') = get_current_version(install_tree)
               /\ install_tree'.files = install_tree.files]_vars

\* an update is leaving through the finally clause after its package failed the
\* checksum comparison
C12_Witness ==
    \E t \in Threads :
        /\ pc[t] = "pu_finally"
        /\ reason[t] = "package integrity verification failed"
        /\ info[t].checksum # None
        /\ get_current_version(install_tree) = DefaultVersion

\* C13: when an update fails at the verification of the package, update_result is
\* "failed: checksum mismatch" and the except clause restores no snapshot and
\* neither stops nor restarts the service.
C13_MismatchNeedsNoRollback ==
    [][\A t \in Threads :
         (PerformUpdateExcept(t)
          /\ reason[t] = "package integrity verification failed")
         => /\ update_status'.update_result = "failed: checksum mismatch"
            /\ UNCHANGED <<svc_vars, install_tree>>]_vars

C15_RollbackRestoresVersion ==
    step = "rolled_back"
    => /\ service_running
       /\ get_current_version(install_tree) = get_current_version(pre_update)

CreatedFrom(id) == {c \in created_from : c.id = id}

\* a restore_backup call returns success in this step
RestoreSucceeds == RestoreBackupItems /\ bk_returned'.ok

\* C17: for every set B of registered items, creating a backup of B and then
\* restoring it by id, after the sources were changed in between, leaves every
\* item of B that existed at creation time with exactly the content it had at
\* creation time.
C17_RestoreReproducesItems ==
    [][(RestoreSucceeds /\ bk_job.backup_id # 0 /\ bk_job.items = {})
       => \A c \in CreatedFrom(bk_job.backup_id) :
            \A i \in Items :
              c.files[i] # Absent => sources'[i] = c.files[i]]_vars

(***************************************************************************)
(* Properties of the escalator: the critical state                         *)
(***************************************************************************)
\* the camera's failure counter has exceeded max_camera_retries
CameraCritical(c) ==
    c \in DOMAIN camera_failures /\ camera_failures[c] > max_camera_retries

\* the network's failure counter has exceeded max_network_retries
NetworkCritical == network_failures > max_network_retries

\* C18: once a domain's failure counter has exceeded its maximum of retries, no
\* later health check or state cleanup runs a recovery action for that domain or
\* lowers its counter.
C18_CriticalIsFinal ==
    [][/\ \A c \in Cameras :
            CameraCritical(c)
            => /\ CameraCritical(c)'
               /\ camera_failures'[c] >= camera_failures[c]
               /\ ~(rec_event'.op = "recover_camera" /\ rec_event'.domain = c)
       /\ NetworkCritical
            => /\ network_failures' >= network_failures
               /\ rec_event'.op # "recover_network"]_vars

\* the items that have an entry in the archive
ArchivedItems(file) == {i \in Items : file.payload.files[i] # Absent}

\* C19: a create_backup that returns an archive has written to the archive's
\* manifest exactly the items that were copied into the archive, so fewer than
\* were requested when a source path was missing.
C19_ManifestListsCopiedItems ==
    [][(bk_returned'.op = "create_backup" /\ bk_returned'.ok)
       => LET file == archives'[bk_returned'.path]
          IN file.payload.manifest = ArchivedItems(file)]_vars

\* C20: every successful restore_backup, whether the backup was given by id or by
\* archive path, appends exactly one restore event, and its notes list exactly
\* the items that were restored.
C20_EveryRestoreIsRecorded ==
    [][RestoreSucceeds
       => /\ Len(restore_history') = Len(restore_history) + 1
          /\ restore_history'[Len(restore_history')].notes = ItemsToRestore(bk_job)]_vars

(***************************************************************************)
(* Properties of the exception handling                                    *)
(***************************************************************************)
\* C21: no exception raised inside a health check, a recovery strategy, the
\* critical-failure handler or the alert push ends the monitoring loop, which
\* goes on to its next iteration, and perform_update, create_backup and
\* restore_backup return a failure value where they would otherwise raise.
C21_NoErrorEscapes ==
    /\ mw_alive
    /\ mw_fault.caught_by # "uncaught"
    /\ call_result.outcome # "raised"
C21_Witness ==
    /\ mw_fault.site = "recovery interval"
    /\ mw_fault.caught_by = "monitoring_worker"
    /\ iterations = MaxIterations
    /\ mw_pc = 1
    /\ call_result.op = "perform_update"
    /\ call_result.site = "raise in the try block"
    /\ call_result.outcome = FailureValue["perform_update"]

(***************************************************************************)
(* Properties of the updater: the order of the stages                      *)
(***************************************************************************)
\* thread t enters this stage of perform_update in the step
Enters(t, stage) == pc[t] # stage /\ pc'[t] = stage

C23_ServerChecksumIsEnforced ==
    [][\A t \in Threads :
         (Enters(t, "pu_extract") /\ served[t] # None)
         => temp_dir.package[info[t].version] = served[t]]_vars

\* the file name ends with this extension, given as its dot-separated parts
HasExtension(name, ext) ==
    /\ Len(name) > Len(ext)
    /\ SubSeq(name, Len(name) - Len(ext) + 1, Len(name)) = ext

\* the archive reader that belongs to the name's extension: zip, tar.gz or tgz
MatchingReader(name) ==
    IF HasExtension(name, <<"zip">>) THEN "zip"
    ELSE IF HasExtension(name, <<"tar", "gz">>) \/ HasExtension(name, <<"tgz">>) THEN "tar"
    ELSE "unsupported"

\* C24: extract_update_package fails on a readable package exactly when the
\* file's extension is not one of zip, tar.gz and tgz, and a package with one of
\* these extensions is dispatched to the matching reader.
C24_ExtractDispatch ==
    (extraction # NoExtraction /\ extraction.readable)
    => /\ extraction.ok <=> MatchingReader(extraction.name) # "unsupported"
       /\ extraction.reader = MatchingReader(extraction.name)

\* C25: the package path download_update_package produces always has an
\* extension that extract_update_package recognizes, so that an attempt whose
\* package reached the extraction is not stopped by the package's name.
C25_DownloadedNameIsRecognized ==
    \A t \in Threads :
        pc[t] = "pu_extract"
        => ExtractReader(PackageName(info[t].version)) # "unsupported"

(***************************************************************************)
(* Properties of the backup manager: the order of a restore                *)
(***************************************************************************)
\* the positions of the log before position k that hold this kind of operation
Earlier(k, kind) == {j \in 1..(k - 1) : restore_log[j].op = kind}

\* C26: in a restore that passed the integrity verification the service is
\* stopped before the first write to a destination and is down when the writes
\* begin, the service start comes after the last write, and for each restored
\* item whose destination held something the '.backup' copy of just that content
\* is made before the destination is overwritten.
C26_RestoreOrder ==
    /\ bk_pc = "restore_items" => restore_log = <<Op("stop", None, None)>> /\ ~service_running
    /\ \A k \in 1..Len(restore_log) :
         LET e == restore_log[k]
         IN /\ e.op \in {"safety", "write"}
               => Earlier(k, "stop") # {} /\ Earlier(k, "start") = {}
            /\ (e.op = "write" /\ e.was # Absent)
               => \E j \in Earlier(k, "safety") :
                     restore_log[j].item = e.item /\ restore_log[j].was = e.was
            /\ e.op = "safety" => safety[e.item] = e.was
C26_Witness ==
    /\ Len(restore_log) >= 6
    /\ restore_log[Len(restore_log)].op = "start"
    /\ ItemsOf(restore_log, "safety") = Items
    /\ ItemsOf(restore_log, "write") = Items
    /\ service_running

(***************************************************************************)
(* Properties of the escalator: the failure counters                       *)
(***************************************************************************)
\* the camera's failure counter, 0 while the dict has no entry for it
CameraCount(c) == IF c \in DOMAIN camera_failures THEN camera_failures[c] ELSE 0

\* a step in which the camera's health check succeeds
CameraHealthy(c) == \E strategy_ok \in BOOLEAN : CheckCameraHealth(c, TRUE, strategy_ok)

\* the step ran a recovery strategy for the domain and the strategy reported
\* success
StrategySucceeded(op, domain) ==
    /\ rec_event'.op = op
    /\ rec_event'.domain = domain
    /\ rec_event'.ok

\* C27: a domain's failure counter is reset to 0 whenever its recovery strategy
\* reports success and whenever a health check of the domain succeeds, and no
\* other action of the escalator lowers a failure counter.
C27_CounterResets ==
    [][/\ \A c \in Cameras :
            /\ (CameraHealthy(c) \/ StrategySucceeded("recover_camera", c))
               => CameraCount(c)' = 0
            /\ CameraCount(c)' < CameraCount(c)
               => CameraHealthy(c) \/ StrategySucceeded("recover_camera", c)
       /\ (CheckNetworkHealth(TRUE) \/ StrategySucceeded("recover_network", NetworkKey))
            => network_failures' = 0
       /\ network_failures' < network_failures
            => CheckNetworkHealth(TRUE) \/ StrategySucceeded("recover_network", NetworkKey)]_vars
C27_Witness ==
    \E c \in Cameras :
        /\ rec_event.op = "recover_camera"
        /\ rec_event.domain = c
        /\ rec_event.ok
        /\ rec_event.attempt >= 2
        /\ CameraCount(c) = 0

\* the domain's last recovery attempt is more than one hour old
Stale(key) ==
    /\ key \in DOMAIN last_recovery_attempt
    /\ now - last_recovery_attempt[key] > CleanupAge

\* C28: after cleanup_recovery_state has run, neither a last-attempt time nor a
\* failure counter remains for a domain whose last attempt was more than one hour
\* old.
C28_CleanupDropsStaleDomains ==
    [][CleanupRecoveryState
       => \A c \in Cameras :
            Stale(CameraKey(c))
            => /\ CameraKey(c) \notin DOMAIN last_recovery_attempt'
               /\ c \notin DOMAIN camera_failures']_vars

(***************************************************************************)
(* Properties of the backup manager: the count-based part of the cleanup   *)
(***************************************************************************)
\* C29: cleanup_old_backups removes a row that is not eligible for the age-based
\* deletion (a weekly row, or one newer than retention_days) only if the rows
\* that remain after the age-based deletions still exceed max_local_backups, and
\* then the table is left with exactly max_local_backups rows.
C29_CapCountsAfterAgeRule ==
    [][CleanupOldBackups
       => LET aged == AgedRows(backups, now, retention_days)
              gone == backups \ backups'
          IN gone \ aged # {}
             => /\ Cardinality(backups \ aged) > max_local_backups
                /\ Cardinality(backups') = max_local_backups]_vars

(***************************************************************************)
(* Properties of the escalator: the budget of service restarts             *)
(***************************************************************************)
\* the step is a request of a service restart whose answer is handed back: the
\* camera ladder from attempt 5 on, or the handler of critical memory usage
RestartRequested ==
    \/ rec_event'.op = "recover_camera" /\ rec_event'.attempt >= 5
    \/ rec_event'.op = "memory"

\* C30: service_restarts never exceeds max_service_restarts; the counter and the
\* number of restart commands run change only by one together and only while the
\* counter is below the maximum; a request made by the camera ladder (attempt 5
\* and later), by the critical network handler or by the critical memory handler
\* at a used-up budget restarts nothing, and is answered with failure.
C30_RestartsWithinBudget ==
    [][/\ service_restarts' <= max_service_restarts
       /\ (service_restarts' # service_restarts \/ restarts_issued' # restarts_issued)
            => /\ service_restarts < max_service_restarts
               /\ service_restarts' = service_restarts + 1
               /\ restarts_issued' = restarts_issued + 1
       /\ (RestartRequested /\ rec_event' # rec_event)
            => (rec_event'.ok <=> service_restarts' = service_restarts + 1)]_vars

\* the budget is used up and a request of the critical memory handler was refused
C30_Witness ==
    /\ service_restarts = max_service_restarts
    /\ restarts_issued = max_service_restarts
    /\ rec_event = RecEvent("memory", "critical", 0, FALSE)

(***************************************************************************)
(* Properties of the escalator: the thresholds of the memory check         *)
(***************************************************************************)
\* C31: a memory check whose reading lies in the lowest band above the warning
\* threshold (one percent above memory_threshold, so not above any higher cleanup
\* threshold) makes the log entry only: it runs no collection and requests no
\* service restart.
C31_WarningBandLogsOnly ==
    [][(\E first \in MemoryReadings, second \in MemoryReadings :
          ReadMemory(first, second))
       => (mem_event'.first = memory_threshold + 1
             => /\ mem_event'.warned
                /\ ~mem_event'.collected
                /\ ~mem_event'.requested)]_vars

(***************************************************************************)
(* Properties of the escalator: what the critical handlers do              *)
(***************************************************************************)
\* C32: the step in which a domain's failure counter exceeds its maximum of
\* retries posts a critical alert for that domain; for a camera it also leaves the
\* camera's detection disabled in the configuration.
C32_CriticalDisablesAndAlerts ==
    [][/\ \A c \in Cameras :
            (/\ \E healthy \in BOOLEAN, strategy_ok \in BOOLEAN :
                  CheckCameraHealth(c, healthy, strategy_ok)
             /\ rec_event'.op = "critical")
            => /\ ~detection_enabled'[c]
               /\ alert_sent' = Alert("camera_failure", c)
       /\ (/\ \E reachable \in BOOLEAN : CheckNetworkHealth(reachable)
           /\ rec_event'.op = "critical")
            => alert_sent'.domain = NetworkKey]_vars

(***************************************************************************)
(* Properties of the backup manager: the audit trail of the restores       *)
(***************************************************************************)
\* C33: after every step of create_backup, restore_backup and
\* cleanup_old_backups, the backup_id of every row of restore_history is the id of
\* a row of the backups table, and the rows restore_history held before the step
\* are still there, unchanged and in place.
C33_RestoreEventsStayValid ==
    [][/\ \A k \in 1..Len(restore_history') :
            \E b \in backups' : b.id = restore_history'[k].backup_id
       /\ Len(restore_history') >= Len(restore_history)
       /\ SubSeq(restore_history', 1, Len(restore_history)) = restore_history]_vars

(***************************************************************************)
(* Properties of the updater: the service around an update                 *)
(***************************************************************************)
\* C34: when perform_update returns, the service it stopped has been restarted:
\* no update attempt returns and leaves the service stopped.
C34_StoppedServiceIsRestarted ==
    [][\A t \in Threads : PerformUpdateFinally(t) => service_running']_vars

(***************************************************************************)
(* Properties of the backup manager: the service around a restore          *)
(***************************************************************************)
\* C35: when restore_backup returns after it has stopped the service, the service
\* has been started again, also when the copy of an item failed.
C35_RestoreStartsServiceAgain ==
    [][RestoreBackupItems
       => (Op("stop", None, None) \in {restore_log'[k] : k \in 1..Len(restore_log')}
             => service_running')]_vars

(***************************************************************************)
(* Properties of the updater: the version it reports                       *)
(***************************************************************************)
\* C36: once an update has been applied and verified, self.current_version, the
\* value check_for_updates sends to the server, is the installed version the
\* VERSION marker gives.
C36_CurrentVersionFollowsUpdate ==
    step = "verified" => current_version = get_current_version(install_tree)

(***************************************************************************)
(* Properties of the updater: the attempts one manual_update call starts   *)
(***************************************************************************)
\* C37: of the perform_update calls made because of one manual_update call, by
\* the check_for_updates it runs or on the thread it starts, at most one goes past
\* the update_in_progress guard.
C37_ManualUpdateStartsOneAttempt ==
    \A k \in 1..Len(calls) : calls[k].op = "manual_update" => calls[k].passes <= 1

(***************************************************************************)
(* Properties of the polling loops                                         *)
(***************************************************************************)
\* C38: no polling component ever has more than one worker thread alive, and when
\* a start call returns, also one made after a stop whose join timed out, the
\* component holds a live worker and self.running is true, so that the worker goes
\* on to further iterations.
C38_StartLeavesLoopRunning ==
    [][\A c \in PollingComponents :
         /\ Cardinality(LiveWorkers(c)') <= 1
         /\ StartLoop(c)
              => /\ running'[c]
                 /\ held_thread'[c] \in LiveWorkers(c)']_vars

(***************************************************************************)
(* Properties of the backup manager: what create_backup returns            *)
(***************************************************************************)
\* C39: a create_backup call that returns a path has inserted a row for that
\* archive into the backups table; a call that returns no path leaves the archive
\* files and the table as they were.
C39_PathMeansRecorded ==
    [][(\E ty \in BackupTypes : CreateBackup(Items, ty))
       => IF bk_returned'.ok
          THEN next_id' = next_id + 1 /\ bk_returned'.path = BackupPath(creates')
          ELSE archives' = archives /\ backups' = backups]_vars

(***************************************************************************)
(* Properties of the backup manager: the new backup and its own cleanup    *)
(***************************************************************************)
\* C40: with max_local_backups >= 1, when create_backup has inserted the row of
\* the new archive and returns its path, the row and the archive file are still
\* there after the cleanup_old_backups the call ends with, whatever created_at the
\* older rows carry.
C40_NewBackupSurvivesOwnCleanup ==
    [][(/\ \E ty \in BackupTypes : CreateBackup(Items, ty)
        /\ bk_returned'.ok
        /\ next_id' = next_id + 1
        /\ max_local_backups >= 1)
       => /\ \E r \in backups' : r.id = next_id /\ r.path = bk_returned'.path
          /\ archives'[bk_returned'.path] # NoFile]_vars

====
